---------------------------- MODULE Spec2Model ----------------------------
(* Issues-bot: the issue processing pipeline (webhook handlers, GitHubService,  *)
(* AutoFixService, DatabaseService) as a state machine.  Every external call    *)
(* (hosting API, completion service, store) is one step of a handler run.       *)
EXTENDS Integers, Sequences, FiniteSets, TLC

VARIABLES
    config,       \* config.ai / defaultBotConfig, fixed at startup
    concurrency,  \* how many webhook handler runs may be in progress at once
    runs,         \* per handler slot: the event being handled, its position, its locals
    issueLabels,  \* hosting platform: the labels of each issue
    issueState,   \* hosting platform: "open" or "closed", per issue
    branches,     \* hosting platform: the issues whose autofix/issue-N branch exists
    branchFiles,  \* hosting platform: the paths present on each autofix branch
    pullRequests, \* hosting platform: the change request of each autofix branch
    records,      \* table issues, keyed by <repository full name>#<issue number>
    issueLogs,    \* table issue_logs, in insertion order
    rateLimiter,  \* RateLimiterMemory: points consumed per key in the current window
    delivered,    \* number of webhook events delivered so far
    failures,     \* number of external calls that have failed so far
    gateInput,    \* the edit set handed to isAutoFixSafe in the gate harness
    gatePc,       \* "ready" before isAutoFixSafe is evaluated on gateInput, "done" after, "again" after a second evaluation
    gateResult,   \* what isAutoFixSafe returned (meaningful once gatePc = "done")
    rateEvent,    \* rate-limiter harness: the last event and what each identity has used
    issuesTable,  \* store harness: the rows of table issues, in insertion order
    saveCalls,    \* store harness: the saveIssueRecord calls in flight and the completed ones
    parseCall,    \* parser harness: a completion text, and what the parser returned for it
    editCall      \* update harness: a file of the branch, an update edit, and what was committed

\* the variables of the harnesses
gateVars == <<gateInput, gatePc, gateResult, rateEvent, issuesTable, saveCalls, parseCall,
             editCall>>
hostVars == <<issueLabels, issueState, branches, branchFiles, pullRequests>>
storeVars == <<records, issueLogs>>
vars ==
    <<config, concurrency, runs, issueLabels, issueState, branches, branchFiles,
      pullRequests, records, issueLogs, rateLimiter, delivered, failures,
      gateInput, gatePc, gateResult, rateEvent, issuesTable, saveCalls, parseCall,
      editCall>>

-----------------------------------------------------------------------------
(* Bounds and program constants *)

\* defaults of config.ai
MaxAutoFixComplexity == 3
ConfidenceThreshold == 80

\* Numbers are held in hundredths: 80 stands for 0.8.
\* NaN is what Math.min(Math.max(x, 0), 1) yields for a non-numeric x; it is
\* held as a value outside every range of numbers.
NaN == -1

\* a < b of JavaScript numbers: false as soon as one side is NaN
NumLt(a, b) == a # NaN /\ b # NaN /\ a < b
NumGt(a, b) == a # NaN /\ b # NaN /\ a > b

-----------------------------------------------------------------------------
(* Text.  A string is a sequence of pieces; a piece is a run of characters    *)
(* that the patterns of the source either match whole or not at all.          *)

LowerTable ==
    [p \in {"SUDO", "Password", "API", "RM", "Secret", "WontFix", "WONTFIX",
             "@Issues-Bot", "Analyze", "FIX"} |->
        CASE p = "SUDO" -> "sudo"
          [] p = "WontFix" -> "wontfix"
          [] p = "WONTFIX" -> "wontfix"
          [] p = "@Issues-Bot" -> "@issues-bot"
          [] p = "Analyze" -> "analyze"
          [] p = "FIX" -> "fix"
          [] p = "Password" -> "password"
          [] p = "API" -> "api"
          [] p = "RM" -> "rm"
          [] p = "Secret" -> "secret"]

\* String.prototype.toLowerCase on one piece
ToLowerCase(p) == IF p \in DOMAIN LowerTable THEN LowerTable[p] ELSE p

\* \s of a regular expression
IsSpace(p) == p \in {" ", "\t", "\n"}

\* String.prototype.endsWith
EndsWith(s, suffix) ==
    /\ Len(s) >= Len(suffix)
    /\ SubSeq(s, Len(s) - Len(suffix) + 1, Len(s)) = suffix

\* /a\s+b/i : a, one or more blanks, b
TestSpaced(s, a, b) ==
    \E i \in 1..Len(s) : \E j \in 1..Len(s) :
        /\ j >= i + 2
        /\ ToLowerCase(s[i]) = a
        /\ ToLowerCase(s[j]) = b
        /\ \A k \in (i + 1)..(j - 1) : IsSpace(s[k])

\* /word/i
TestWord(s, w) == \E i \in 1..Len(s) : ToLowerCase(s[i]) = w

\* /a[_-]?b/i
TestJoined(s, a, b) ==
    \E i \in 1..Len(s) :
        /\ ToLowerCase(s[i]) = a
        /\ \/ i + 1 <= Len(s) /\ ToLowerCase(s[i + 1]) = b
           \/ i + 2 <= Len(s) /\ s[i + 1] \in {"_", "-"} /\ ToLowerCase(s[i + 2]) = b

-----------------------------------------------------------------------------
(* AutoFixService.isAutoFixSafe *)

criticalFiles ==
    { <<"package.json">>, <<"package-lock.json">>, <<"yarn.lock">>,
      <<"Dockerfile">>, <<"docker-compose.yml">>,
      <<".env">>, <<".env", ".local">>, <<".env", ".production">>,
      <<"nginx.conf">>, <<"apache.conf">> }

\* criticalFiles.some(critical => file.path.endsWith(critical))
IsCriticalPath(path) == \E critical \in criticalFiles : EndsWith(path, critical)

hasCriticalFiles(autoFix) ==
    \E n \in 1..Len(autoFix.files) : IsCriticalPath(autoFix.files[n].path)

\* dangerousPatterns.some(pattern => pattern.test(content))
MatchesDangerousPatternNoCase(content) ==
    \/ \E i \in 1..Len(content) : content[i] \in {"sudo", "password", "secret"}
    \/ TestSpaced(content, "rm", "-rf")
    \/ TestSpaced(content, "chmod", "777")
    \/ TestJoined(content, "api", "key")
    \/ TestJoined(content, "private", "key")

MatchesDangerousPattern(content) ==
    \/ TestSpaced(content, "rm", "-rf")
    \/ TestWord(content, "sudo")
    \/ TestSpaced(content, "chmod", "777")
    \/ TestWord(content, "password")
    \/ TestWord(content, "secret")
    \/ TestJoined(content, "api", "key")
    \/ TestJoined(content, "private", "key")

\* file.content && ... : undefined (hasContent = FALSE) and "" are falsy
hasDangerousContent(autoFix) ==
    \E n \in 1..Len(autoFix.files) :
        LET file == autoFix.files[n] IN
        /\ file.hasContent
        /\ file.content # <<>>
        /\ MatchesDangerousPattern(file.content)

\* the gate with the confidence check left out
IsAutoFixSafeNoConfidence(autoFix, analysis) ==
    IF autoFix.riskLevel = "high" THEN FALSE
    ELSE IF NumGt(Len(autoFix.files), config.maxAutoFixComplexity) THEN FALSE
    ELSE IF hasCriticalFiles(autoFix) /\ autoFix.riskLevel # "low" THEN FALSE
    ELSE IF hasDangerousContent(autoFix) THEN FALSE
    ELSE TRUE

IsAutoFixSafe(autoFix, analysis) ==
    IF NumLt(autoFix.confidence, config.confidenceThreshold) THEN FALSE
    ELSE IF autoFix.riskLevel = "high" THEN FALSE
    ELSE IF NumGt(Len(autoFix.files), config.maxAutoFixComplexity) THEN FALSE
    ELSE IF hasCriticalFiles(autoFix) /\ autoFix.riskLevel # "low" THEN FALSE
    ELSE IF hasDangerousContent(autoFix) THEN FALSE
    ELSE TRUE

-----------------------------------------------------------------------------
(* AIService: parsing of completions.  A completion is held by its shape     *)
(* ("text": not JSON, "scalar": JSON that is no object, "object") and, for   *)
(* an object, the set of keys it has and their values.                       *)

Min(a, b) == IF a < b THEN a ELSE b
Max(a, b) == IF a > b THEN a ELSE b

\* Math.min(Math.max(parsed.confidence || 0, 0), 1); a missing key is held as 0,
\* a non-numeric string as NaN
ClampConfidence(x) == IF x = NaN THEN NaN ELSE Min(Max(x, 0), 100)

NoAnalysis ==
    [type |-> "none", severity |-> "none", priority |-> "none", confidence |-> 0,
     suggestedLabels |-> {}, autoFixable |-> FALSE]

FallbackAnalysis ==
    [type |-> "other", severity |-> "medium", priority |-> "medium", confidence |-> 30,
     suggestedLabels |-> {"needs-review"}, autoFixable |-> FALSE]

requiredAnalysisFields == {"type", "severity", "priority", "confidence", "description"}

\* AIService.parseAnalysisResponse
ParseAnalysisResponse(content) ==
    IF content.shape # "object" \/ ~(requiredAnalysisFields \subseteq content.keys)
    THEN FallbackAnalysis
    ELSE [type |-> content.type,
          severity |-> content.severity,
          priority |-> content.priority,
          confidence |-> ClampConfidence(content.confidence),
          suggestedLabels |->
              IF "suggestedLabels" \in content.keys THEN content.suggestedLabels ELSE {},
          autoFixable |-> "autoFixable" \in content.keys /\ content.autoFixable]

NoSolution == [summary |-> "undefined", steps |-> 0, difficulty |-> "none"]

\* AIService.parseSolutionResponse
ParseSolutionResponse(content) ==
    IF content.shape = "text"
    THEN [summary |-> "parse-failed", steps |-> 0, difficulty |-> "hard"]
    ELSE [summary |-> IF "summary" \in content.keys THEN "given" ELSE "generation-failed",
          steps |-> IF "steps" \in content.keys THEN content.steps ELSE 0,
          difficulty |->
              IF "difficulty" \in content.keys THEN content.difficulty ELSE "medium"]

\* null
NoAutoFix ==
    [type |-> "null", files |-> <<>>, confidence |-> 0, riskLevel |-> "none",
     testRequired |-> FALSE]

\* AIService.parseAutoFixResponse
ParseAutoFixResponse(content) ==
    IF content.shape = "text" THEN NoAutoFix
    ELSE IF "autoFixable" \in content.keys /\ content.autoFixable = FALSE THEN NoAutoFix
    ELSE [type |-> content.type,
          files |-> IF "files" \in content.keys THEN content.files ELSE <<>>,
          confidence |-> ClampConfidence(content.confidence),
          riskLevel |-> IF "riskLevel" \in content.keys THEN content.riskLevel ELSE "medium",
          testRequired |-> "testRequired" \in content.keys /\ content.testRequired]

-----------------------------------------------------------------------------
(* AutoFixService.applyFileChanges.  A file content is the sequence of its   *)
(* lines (split on the line break, joined by it); a line is a token.          *)

\* one change applied to lines, line 294-308: lineIndex = lineNumber - 1;
\* splice(lineIndex, 0, content) counts a negative index from the end and
\* takes an index beyond the end as the end; remove and replace act only on
\* an index inside the array
ApplyChange(lines, change) ==
    LET lineIndex == change.lineNumber - 1
        start == IF lineIndex < 0 THEN Max(Len(lines) + lineIndex, 0)
                 ELSE Min(lineIndex, Len(lines))
        inside == lineIndex >= 0 /\ lineIndex < Len(lines)
    IN CASE change.type = "add" ->
              SubSeq(lines, 1, start) \o <<change.content>>
                  \o SubSeq(lines, start + 1, Len(lines))
         [] change.type = "remove" /\ inside ->
              SubSeq(lines, 1, lineIndex) \o SubSeq(lines, lineIndex + 2, Len(lines))
         [] change.type = "replace" /\ inside ->
              [lines EXCEPT ![lineIndex + 1] = change.content]
         [] OTHER -> lines

\* the changes taken in the order the caller gave them
ChangesAsGiven(changes) == changes

\* changes.sort((a, b) => b.lineNumber - a.lineNumber): descending line number,
\* changes of equal line number staying in their order (the sort is stable)
RECURSIVE SortChanges(_)
SortChanges(changes) ==
    IF changes = <<>> THEN <<>>
    ELSE LET front == SortChanges(SubSeq(changes, 1, Len(changes) - 1))
             last == changes[Len(changes)]
             k == Cardinality({n \in 1..Len(front) : front[n].lineNumber >= last.lineNumber})
         IN SubSeq(front, 1, k) \o <<last>> \o SubSeq(front, k + 1, Len(front))

\* for (const change of sortedChanges) ...
RECURSIVE ApplyAll(_, _)
ApplyAll(lines, sortedChanges) ==
    IF sortedChanges = <<>> THEN lines
    ELSE ApplyAll(ApplyChange(lines, Head(sortedChanges)), Tail(sortedChanges))

ApplyFileChanges(originalContent, changes) ==
    ApplyAll(originalContent, SortChanges(changes))

-----------------------------------------------------------------------------
(* GitHubService: admission filter and labels *)

skipLabels == {"duplicate", "invalid", "wontfix", "spam"}

processedLabels == {"issues-bot:analyzed", "issues-bot:processing"}

hasSkipLabel(issue) == \E label \in issue.labels : ToLowerCase(label) \in skipLabels

\* the admission filter comparing label names as they are
ShouldProcessIssueCaseSensitive(issue) ==
    IF \E label \in issue.labels : label \in skipLabels THEN FALSE
    ELSE IF issue.state # "open" THEN FALSE
    ELSE ~(\E label \in issue.labels : label \in processedLabels)

\* GitHubService.shouldProcessIssue
ShouldProcessIssue(issue) ==
    IF hasSkipLabel(issue) THEN FALSE
    ELSE IF issue.state # "open" THEN FALSE
    ELSE ~(\E label \in issue.labels : label \in processedLabels)

\* the labels addAnalysisLabels adds
AnalysisLabels(analysis) ==
    {"issues-bot:analyzed", "type:" \o analysis.type, "severity:" \o analysis.severity,
     "priority:" \o analysis.priority} \cup analysis.suggestedLabels

\* \w+ : a piece made of word characters
IsWord(p) == p \notin {" ", "\t", "\n", "!", "-", ".", "'"}

\* the trigger at piece i, one or more blanks, then a word at piece j
CommandAt(commentBody, i, j) ==
    /\ ToLowerCase(commentBody[i]) = "@issues-bot"
    /\ j >= i + 2
    /\ \A k \in (i + 1)..(j - 1) : IsSpace(commentBody[k])
    /\ IsWord(commentBody[j])

\* GitHubService.parseCommand: the leftmost match of @issues-bot, blanks, a word,
\* then match[1].toLowerCase(); "" stands for null
ParseCommand(commentBody) ==
    LET n == Len(commentBody)
        matches == {i \in 1..n : \E j \in 1..n : CommandAt(commentBody, i, j)}
    IN IF matches = {} THEN ""
       ELSE LET i == CHOOSE m \in matches : \A o \in matches : m <= o
                j == CHOOSE w \in 1..n : CommandAt(commentBody, i, w)
            IN ToLowerCase(commentBody[j])

-----------------------------------------------------------------------------
(* The pipeline: state *)

NumIssues == 1
MaxEvents == 3
MaxFailures == 1
RateLimitMax == 2

Issues == 1..NumIssues
Slots == {1, 2}

NoRecord ==
    [status |-> "none", analysis |-> NoAnalysis, solution |-> NoSolution,
     autoFixAttempted |-> FALSE, autoFixSuccessful |-> "null"]

NoPullRequest == [action |-> "none", merged |-> FALSE, ref |-> "none", issue |-> 0]

IdleRun ==
    [kind |-> "none", pc |-> "idle", issue |-> 0,
     labels |-> {}, state |-> "open",      \* context.payload.issue
     userType |-> "none", body |-> <<>>,   \* context.payload.comment: user.type, body
     command |-> "",                       \* parseCommand(comment.body).action
     pr |-> NoPullRequest,                 \* context.payload.pull_request
     analysis |-> NoAnalysis, solution |-> NoSolution, existing |-> NoRecord,
     autoFix |-> NoAutoFix, gate |-> "none", fileIndex |-> 0, changedFiles |-> <<>>,
     success |-> FALSE,
     calls |-> <<>>]                       \* the external calls made so far, in order

\* the files of the default branch
BaseFiles == { <<"src/", "app.ts">>, <<"docs/", "old.md">>, <<"package.json">> }

\* a branch holds files: a path and the content last committed at it
BaseTree == {[path |-> p, content |-> <<"base">>] : p \in BaseFiles}
PathsOf(tree) == {f.path : f \in tree}
WriteFile(tree, path, content) ==
    {f \in tree : f.path # path} \cup {[path |-> path, content |-> content]}
RemoveFile(tree, path) == {f \in tree : f.path # path}

\* Buffer.from(fileChange.content || ''): the content a write commits
WrittenContent(file) == IF file.hasContent THEN file.content ELSE <<>>

UserLabelSets == { {}, {"wontfix"}, {"WontFix"}, {"enhancement"} }

\* context.repo() of the events: `${owner}/${repo}`
Repositories == {"repo", "other"}
Repository == "repo"

\* one key for the issue events and the comment events of a repository
SharedRateLimiterKey(repository) == repository

\* rateLimiterKey of issues.opened and issues.edited
IssueRateLimiterKey(repository) == repository

\* rateLimiterKey of issue_comment.created
CommentRateLimiterKey(repository) == repository \o "/comment"

Channels == {"issues", "comment"}

\* no event yet in the current window of the rate limiter
NoRateEvent ==
    [kind |-> "none", repository |-> "", accepted |-> FALSE,
     used |-> [r \in Repositories |-> [c \in Channels |-> 0]]]

PipelineQuiet ==
    /\ concurrency = 1
    /\ runs = [s \in Slots |-> IdleRun]
    /\ issueLabels = [i \in Issues |-> {}]
    /\ issueState = [i \in Issues |-> "open"]
    /\ branches = {}
    /\ branchFiles = [i \in Issues |-> {}]
    /\ pullRequests = [i \in Issues |-> "none"]
    /\ records = [i \in Issues |-> NoRecord]
    /\ issueLogs = <<>>
    /\ rateLimiter = [k \in {IssueRateLimiterKey(Repository),
                              CommentRateLimiterKey(Repository)} |-> 0]
    /\ delivered = 0
    /\ failures = 0

\* generateIssueId: `${repository.full_name}#${issue.number}`
GenerateIssueId(issue, repository) == <<repository, "#", issue>>

IssueIds == {GenerateIssueId(i, r) : i \in Issues, r \in Repositories}

\* no saveIssueRecord call made yet
NoSaveCalls ==
    [pending |-> {},
     last |-> [id \in IssueIds |-> NoRecord],
     previous |-> [id \in IssueIds |-> NoRecord]]

\* no update edit handed to applyFileChange
NoEditCall == [pc |-> "none"]

\* no completion handed to a parser
NoParseCall == [kind |-> "none", done |-> TRUE, content |-> [shape |-> "text", keys |-> {}]]

GateQuiet ==
    /\ gateInput = NoAutoFix
    /\ gatePc = "done"
    /\ gateResult = FALSE
    /\ rateEvent = NoRateEvent
    /\ issuesTable = <<>>
    /\ saveCalls = NoSaveCalls
    /\ parseCall = NoParseCall
    /\ editCall = NoEditCall

Init ==
    /\ config \in [ autoFixEnabled : BOOLEAN,
                    confidenceThreshold : {ConfidenceThreshold},
                    maxAutoFixComplexity : {MaxAutoFixComplexity} ]
    /\ PipelineQuiet
    /\ GateQuiet

-----------------------------------------------------------------------------
(* The pipeline: helpers of the steps *)

\* an external call either succeeds or fails; the number of failures is bounded
Outcome(ok) ==
    /\ ok \in BOOLEAN
    /\ ~ok => failures < MaxFailures
    /\ failures' = IF ok THEN failures ELSE failures + 1

Free(s) == s <= concurrency /\ runs[s].pc \in {"idle", "done"}
At(s, pc) == runs[s].pc = pc

\* the run of slot s moves to pc, having made the call op with outcome ok
Goto(s, pc, op, ok) ==
    [runs EXCEPT ![s].pc = pc, ![s].calls = Append(@, <<op, ok>>)]

\* rateLimiter.consume(key): TRUE when a point was left
Consume(key) == rateLimiter[key] < RateLimitMax
Consumed(key) ==
    IF Consume(key) THEN [rateLimiter EXCEPT ![key] = @ + 1] ELSE rateLimiter

\* where handleIssueOpened goes after its admission filter
AfterAdmission(issue) == IF ShouldProcessIssue(issue) THEN "addProcessingLabel" ELSE "done"

Payload(i) == [labels |-> issueLabels[i], state |-> issueState[i]]

NewRun(kind, i) ==
    [IdleRun EXCEPT !.kind = kind, !.issue = i,
                    !.labels = issueLabels[i], !.state = issueState[i]]

-----------------------------------------------------------------------------
(* The completions the language model may return in the pipeline *)

AnalysisCompletions ==
    { [shape |-> "object",
       keys |-> requiredAnalysisFields \cup {"suggestedLabels", "autoFixable"},
       type |-> "bug", severity |-> "high", priority |-> "high", confidence |-> 90,
       suggestedLabels |-> {"bug"}, autoFixable |-> TRUE],
      [shape |-> "object",
       keys |-> requiredAnalysisFields \cup {"autoFixable"},
       type |-> "feature", severity |-> "low", priority |-> "low", confidence |-> 50,
       suggestedLabels |-> {}, autoFixable |-> TRUE],
      [shape |-> "text", keys |-> {},
       type |-> "", severity |-> "", priority |-> "", confidence |-> 0,
       suggestedLabels |-> {}, autoFixable |-> FALSE] }

SolutionCompletions ==
    { [shape |-> "object", keys |-> {"summary", "steps", "difficulty"},
       steps |-> 2, difficulty |-> "easy"],
      [shape |-> "text", keys |-> {}, steps |-> 0, difficulty |-> ""] }

-----------------------------------------------------------------------------
(* Webhook handlers of issuesBot: issues.opened, issues.edited *)

\* app.on('issues.opened'): rateLimiter.consume, then handleIssueOpened; a
\* rejection that is an Error leads to addRateLimitComment, any other is logged
IssuesOpened(s, i) ==
    /\ Free(s)
    /\ delivered < MaxEvents
    /\ delivered' = delivered + 1
    /\ rateLimiter' = Consumed(IssueRateLimiterKey(Repository))
    /\ \E isError \in BOOLEAN :
         runs' = [runs EXCEPT ![s] =
                    [NewRun("opened", i) EXCEPT
                        !.pc = IF Consume(IssueRateLimiterKey(Repository)) THEN AfterAdmission(Payload(i))
                               ELSE IF isError THEN "addRateLimitComment"
                               ELSE "done",
                        !.calls = <<<<"rateLimiter.consume", Consume(IssueRateLimiterKey(Repository))>>>>]]
    /\ UNCHANGED <<config, concurrency, hostVars, storeVars, failures, gateVars>>

\* addRateLimitComment letting a failed createComment leave the catch of the
\* issues.opened handler: the handler rejects
AddRateLimitCommentThrowing(s) ==
    /\ At(s, "addRateLimitComment")
    /\ \E ok \in BOOLEAN :
         /\ Outcome(ok)
         /\ runs' = Goto(s, IF ok THEN "done" ELSE "rejected", "createComment:rateLimit", ok)
    /\ UNCHANGED <<config, concurrency, hostVars, storeVars, rateLimiter, delivered,
                   gateVars>>

\* addRateLimitComment
AddRateLimitComment(s) ==
    /\ At(s, "addRateLimitComment")
    /\ \E ok \in BOOLEAN :
         /\ Outcome(ok)
         /\ runs' = Goto(s, "done", "createComment:rateLimit", ok)
    /\ UNCHANGED <<config, concurrency, hostVars, storeVars, rateLimiter, delivered,
                   gateVars>>

\* app.on('issues.edited'): rateLimiter.consume, then, when the title or the body
\* changed, addReanalysisComment and handleIssueOpened
IssuesEdited(s, i, changed) ==
    /\ Free(s)
    /\ delivered < MaxEvents
    /\ delivered' = delivered + 1
    /\ rateLimiter' = Consumed(IssueRateLimiterKey(Repository))
    /\ runs' = [runs EXCEPT ![s] =
                  [NewRun("edited", i) EXCEPT
                      !.pc = IF Consume(IssueRateLimiterKey(Repository)) /\ changed THEN "addReanalysisComment"
                             ELSE "done",
                      !.calls = <<<<"rateLimiter.consume", Consume(IssueRateLimiterKey(Repository))>>>>]]
    /\ UNCHANGED <<config, concurrency, hostVars, storeVars, failures, gateVars>>

\* addReanalysisComment, then handleIssueOpened up to its admission filter
AddReanalysisComment(s) ==
    /\ At(s, "addReanalysisComment")
    /\ \E ok \in BOOLEAN :
         /\ Outcome(ok)
         /\ runs' = Goto(s, AfterAdmission(runs[s]), "createComment:reanalysis", ok)
    /\ UNCHANGED <<config, concurrency, hostVars, storeVars, rateLimiter, delivered,
                   gateVars>>

-----------------------------------------------------------------------------
(* GitHubService.handleIssueOpened, after the admission filter *)

\* addProcessingLabel: a failure is logged and swallowed
AddProcessingLabel(s) ==
    /\ At(s, "addProcessingLabel")
    /\ \E ok \in BOOLEAN :
         /\ Outcome(ok)
         /\ issueLabels' =
              IF ok THEN [issueLabels EXCEPT ![runs[s].issue] = @ \cup {"issues-bot:processing"}]
              ELSE issueLabels
         /\ runs' = Goto(s, "analyzeIssue", "addLabels:processing", ok)
    /\ UNCHANGED <<config, concurrency, issueState, branches, branchFiles, pullRequests,
                   storeVars, rateLimiter, delivered, gateVars>>

\* analyzeIssue going on with the fallback classification when the completion
\* call fails
AnalyzeIssueSwallowing(s) ==
    /\ At(s, "analyzeIssue")
    /\ \E ok \in BOOLEAN :
         /\ Outcome(ok)
         /\ IF ok
            THEN \E content \in AnalysisCompletions :
                   runs' = [Goto(s, "saveIssueRecord", "ai.analyzeIssue", TRUE) EXCEPT
                              ![s].analysis = ParseAnalysisResponse(content)]
            ELSE runs' = [Goto(s, "saveIssueRecord", "ai.analyzeIssue", FALSE) EXCEPT
                            ![s].analysis = FallbackAnalysis]
    /\ UNCHANGED <<config, concurrency, hostVars, storeVars, rateLimiter, delivered,
                   gateVars>>

\* analyzeIssue -> AIService.analyzeIssue: a failed completion call is rethrown
\* to the catch of handleIssueOpened; a completion is parsed
AnalyzeIssue(s) ==
    /\ At(s, "analyzeIssue")
    /\ \E ok \in BOOLEAN :
         /\ Outcome(ok)
         /\ IF ok
            THEN \E content \in AnalysisCompletions :
                   runs' = [Goto(s, "saveIssueRecord", "ai.analyzeIssue", TRUE) EXCEPT
                              ![s].analysis = ParseAnalysisResponse(content)]
            ELSE runs' = Goto(s, "addErrorComment", "ai.analyzeIssue", FALSE)
    /\ UNCHANGED <<config, concurrency, hostVars, storeVars, rateLimiter, delivered,
                   gateVars>>

\* the record GitHubService.saveIssueRecord builds
AnalyzedRecord(analysis) ==
    [status |-> "analyzed", analysis |-> analysis, solution |-> NoSolution,
     autoFixAttempted |-> FALSE, autoFixSuccessful |-> "null"]

\* GitHubService.saveIssueRecord, first call: DatabaseService.saveIssueRecord
\* (INSERT OR REPLACE of the whole row)
SaveIssueRecord(s) ==
    /\ At(s, "saveIssueRecord")
    /\ \E ok \in BOOLEAN :
         /\ Outcome(ok)
         /\ records' =
              IF ok THEN [records EXCEPT ![runs[s].issue] = AnalyzedRecord(runs[s].analysis)]
              ELSE records
         /\ runs' = Goto(s, IF ok THEN "addIssueLogAnalyzed" ELSE "addErrorComment",
                         "db.saveIssueRecord", ok)
    /\ UNCHANGED <<config, concurrency, hostVars, issueLogs, rateLimiter, delivered,
                   gateVars>>

\* GitHubService.saveIssueRecord, second call: addIssueLog(id, 'analyzed')
AddIssueLogAnalyzed(s) ==
    /\ At(s, "addIssueLogAnalyzed")
    /\ \E ok \in BOOLEAN :
         /\ Outcome(ok)
         /\ issueLogs' =
              IF ok THEN Append(issueLogs, <<runs[s].issue, "analyzed">>) ELSE issueLogs
         /\ runs' = Goto(s, IF ok THEN "removeLabel" ELSE "addErrorComment",
                         "db.addIssueLog:analyzed", ok)
    /\ UNCHANGED <<config, concurrency, hostVars, records, rateLimiter, delivered,
                   gateVars>>

\* addAnalysisLabels, first call: issues.removeLabel('issues-bot:processing'); it
\* throws when the call fails and when the issue does not carry the label (404),
\* and the catch of addAnalysisLabels then skips issues.addLabels
RemoveLabel(s) ==
    /\ At(s, "removeLabel")
    /\ \E callOk \in BOOLEAN :
         /\ Outcome(callOk)
         /\ LET ok == callOk /\ "issues-bot:processing" \in issueLabels[runs[s].issue]
            IN /\ issueLabels' =
                    IF ok THEN [issueLabels EXCEPT ![runs[s].issue] =
                                    @ \ {"issues-bot:processing"}]
                    ELSE issueLabels
               /\ runs' = Goto(s, IF ok THEN "addLabels" ELSE "generateSolution",
                               "removeLabel:processing", ok)
    /\ UNCHANGED <<config, concurrency, issueState, branches, branchFiles, pullRequests,
                   storeVars, rateLimiter, delivered, gateVars>>

\* addAnalysisLabels, second call: issues.addLabels(labels)
AddLabels(s) ==
    /\ At(s, "addLabels")
    /\ \E ok \in BOOLEAN :
         /\ Outcome(ok)
         /\ issueLabels' =
              IF ok THEN [issueLabels EXCEPT ![runs[s].issue] =
                              @ \cup AnalysisLabels(runs[s].analysis)]
              ELSE issueLabels
         /\ runs' = Goto(s, "generateSolution", "addLabels:analysis", ok)
    /\ UNCHANGED <<config, concurrency, issueState, branches, branchFiles, pullRequests,
                   storeVars, rateLimiter, delivered, gateVars>>

\* where generateSolution returns to: handleIssueOpened goes on with
\* addAnalysisComment, handleSuggestCommand with addSolutionComment if it got one
AfterSolution(run, solution) ==
    IF run.command = "suggest"
    THEN IF solution # NoSolution THEN "addSolutionComment" ELSE "done"
    ELSE "addAnalysisComment"

\* generateSolution letting a failed completion call reach the catch of
\* handleIssueOpened
GenerateSolutionRethrowing(s) ==
    /\ At(s, "generateSolution")
    /\ \E ok \in BOOLEAN :
         /\ Outcome(ok)
         /\ IF ok
            THEN \E content \in SolutionCompletions :
                   runs' = [Goto(s, "solutionGetRecord", "ai.generateSolution", TRUE) EXCEPT
                              ![s].solution = ParseSolutionResponse(content)]
            ELSE runs' = Goto(s, "addErrorComment", "ai.generateSolution", FALSE)
    /\ UNCHANGED <<config, concurrency, hostVars, storeVars, rateLimiter, delivered,
                   gateVars>>

\* generateSolution, first call: AIService.generateSolution; its catch turns
\* every failure into undefined
GenerateSolution(s) ==
    /\ At(s, "generateSolution")
    /\ \E ok \in BOOLEAN :
         /\ Outcome(ok)
         /\ IF ok
            THEN \E content \in SolutionCompletions :
                   runs' = [Goto(s, "solutionGetRecord", "ai.generateSolution", TRUE) EXCEPT
                              ![s].solution = ParseSolutionResponse(content)]
            ELSE runs' = Goto(s, AfterSolution(runs[s], NoSolution),
                              "ai.generateSolution", FALSE)
    /\ UNCHANGED <<config, concurrency, hostVars, storeVars, rateLimiter, delivered,
                   gateVars>>

\* generateSolution, second call: getIssueRecord(issueId)
SolutionGetRecord(s) ==
    /\ At(s, "solutionGetRecord")
    /\ \E ok \in BOOLEAN :
         /\ Outcome(ok)
         /\ LET existing == records[runs[s].issue] IN
            runs' =
              IF ~ok
              THEN [Goto(s, AfterSolution(runs[s], NoSolution), "db.getIssueRecord", FALSE)
                      EXCEPT ![s].solution = NoSolution]
              ELSE [Goto(s, IF existing # NoRecord THEN "solutionSaveRecord"
                            ELSE AfterSolution(runs[s], runs[s].solution),
                         "db.getIssueRecord", TRUE)
                      EXCEPT ![s].existing = existing]
    /\ UNCHANGED <<config, concurrency, hostVars, storeVars, rateLimiter, delivered,
                   gateVars>>

\* generateSolution, third call: saveIssueRecord({...existingRecord, solution})
SolutionSaveRecord(s) ==
    /\ At(s, "solutionSaveRecord")
    /\ \E ok \in BOOLEAN :
         /\ Outcome(ok)
         /\ records' =
              IF ok THEN [records EXCEPT ![runs[s].issue] =
                              [runs[s].existing EXCEPT !.solution = runs[s].solution]]
              ELSE records
         /\ runs' =
              IF ok
              THEN Goto(s, AfterSolution(runs[s], runs[s].solution),
                        "db.saveIssueRecord:solution", TRUE)
              ELSE [Goto(s, AfterSolution(runs[s], NoSolution),
                         "db.saveIssueRecord:solution", FALSE)
                      EXCEPT ![s].solution = NoSolution]
    /\ UNCHANGED <<config, concurrency, hostVars, issueLogs, rateLimiter, delivered,
                   gateVars>>

\* addAnalysisComment, then the test on analysis.autoFixable and autoFixEnabled
AddAnalysisComment(s) ==
    /\ At(s, "addAnalysisComment")
    /\ \E ok \in BOOLEAN :
         /\ Outcome(ok)
         /\ runs' = Goto(s, IF runs[s].analysis.autoFixable /\ config.autoFixEnabled
                            THEN "generateAutoFix" ELSE "done",
                         "createComment:analysis", ok)
    /\ UNCHANGED <<config, concurrency, hostVars, storeVars, rateLimiter, delivered,
                   gateVars>>

\* the catch of handleIssueOpened: addErrorComment
AddErrorComment(s) ==
    /\ At(s, "addErrorComment")
    /\ \E ok \in BOOLEAN :
         /\ Outcome(ok)
         /\ runs' = Goto(s, "done", "createComment:error", ok)
    /\ UNCHANGED <<config, concurrency, hostVars, storeVars, rateLimiter, delivered,
                   gateVars>>

-----------------------------------------------------------------------------
(* GitHubService.attemptAutoFix and AutoFixService.applyAutoFix *)

AutoFixCompletions ==
    { [shape |-> "object", keys |-> {"type", "files", "confidence", "riskLevel"},
       autoFixable |-> TRUE, type |-> "code_change", confidence |-> 90,
       riskLevel |-> "low", testRequired |-> FALSE,
       files |-> << [path |-> <<"src/", "app.ts">>, action |-> "update",
                     hasContent |-> TRUE, content |-> <<"x">>] >>],
      [shape |-> "object", keys |-> {"type", "confidence", "riskLevel"},
       autoFixable |-> TRUE, type |-> "documentation", confidence |-> 90,
       riskLevel |-> "low", testRequired |-> FALSE, files |-> <<>>],
      [shape |-> "object", keys |-> {"type", "files", "confidence", "riskLevel"},
       autoFixable |-> TRUE, type |-> "code_change", confidence |-> 95,
       riskLevel |-> "high", testRequired |-> FALSE,
       files |-> << [path |-> <<"docs/", "new.md">>, action |-> "create",
                     hasContent |-> TRUE, content |-> <<"x">>] >>],
      [shape |-> "object", keys |-> {"type", "files", "confidence", "testRequired"},
       autoFixable |-> TRUE, type |-> "config_change", confidence |-> 150,
       riskLevel |-> "", testRequired |-> TRUE,
       files |-> << [path |-> <<"docs/", "old.md">>, action |-> "delete",
                     hasContent |-> FALSE, content |-> <<>>],
                    [path |-> <<"docs/", "new.md">>, action |-> "update",
                     hasContent |-> TRUE, content |-> <<"x">>] >>],
      [shape |-> "object", keys |-> {"autoFixable"},
       autoFixable |-> FALSE, type |-> "", confidence |-> 0,
       riskLevel |-> "", testRequired |-> FALSE, files |-> <<>>],
      [shape |-> "text", keys |-> {},
       autoFixable |-> FALSE, type |-> "", confidence |-> 0,
       riskLevel |-> "", testRequired |-> FALSE, files |-> <<>>] }

\* generateAutoFix without its test on analysis.autoFixable and the confidence
GenerateAutoFixUnguarded(s) ==
    /\ At(s, "generateAutoFix")
    /\ \E ok \in BOOLEAN :
         /\ Outcome(ok)
         /\ IF ok
            THEN \E content \in AutoFixCompletions :
                   LET autoFix == ParseAutoFixResponse(content) IN
                   runs' = [Goto(s, IF autoFix = NoAutoFix THEN "done"
                                    ELSE "isAutoFixSafe",
                                 "ai.generateAutoFix", TRUE)
                              EXCEPT ![s].autoFix = autoFix]
            ELSE runs' = Goto(s, "done", "ai.generateAutoFix", FALSE)
    /\ UNCHANGED <<config, concurrency, hostVars, storeVars, rateLimiter, delivered,
                   gateVars>>

\* attemptAutoFix up to `if (!autoFix) return`: AIService.generateAutoFix returns
\* null without a call for an analysis that is not auto-fixable or below the
\* threshold, null when the call fails, and else what parseAutoFixResponse returns
GenerateAutoFix(s) ==
    /\ At(s, "generateAutoFix")
    /\ IF ~runs[s].analysis.autoFixable
          \/ NumLt(runs[s].analysis.confidence, config.confidenceThreshold)
       THEN /\ runs' = [runs EXCEPT ![s].pc = "done"]
            /\ UNCHANGED failures
       ELSE \E ok \in BOOLEAN :
              /\ Outcome(ok)
              /\ IF ok
                 THEN \E content \in AutoFixCompletions :
                        LET autoFix == ParseAutoFixResponse(content) IN
                        runs' = [Goto(s, IF autoFix = NoAutoFix THEN "done"
                                         ELSE "isAutoFixSafe",
                                      "ai.generateAutoFix", TRUE)
                                   EXCEPT ![s].autoFix = autoFix]
                 ELSE runs' = Goto(s, "done", "ai.generateAutoFix", FALSE)
    /\ UNCHANGED <<config, concurrency, hostVars, storeVars, rateLimiter, delivered,
                   gateVars>>

\* applyAutoFix with the safety check left out
ApplyAutoFixGateUnchecked(s) ==
    /\ At(s, "isAutoFixSafe")
    /\ runs' = [Goto(s, "getDefaultBranch", "isAutoFixSafe",
                     IsAutoFixSafe(runs[s].autoFix, runs[s].analysis))
                  EXCEPT ![s].gate =
                     IF IsAutoFixSafe(runs[s].autoFix, runs[s].analysis)
                     THEN "pass" ELSE "reject"]
    /\ UNCHANGED <<config, concurrency, hostVars, storeVars, rateLimiter, delivered,
                   failures, gateVars>>

\* applyAutoFix, lines 29-33: if (!this.isAutoFixSafe(autoFix, analysis)) return false
ApplyAutoFixGate(s) ==
    /\ At(s, "isAutoFixSafe")
    /\ LET safe == IsAutoFixSafe(runs[s].autoFix, runs[s].analysis) IN
       runs' = [Goto(s, IF safe THEN "getDefaultBranch" ELSE "recordAutoFixAttempt",
                     "isAutoFixSafe", safe)
                  EXCEPT ![s].gate = IF safe THEN "pass" ELSE "reject",
                         ![s].success = FALSE]
    /\ UNCHANGED <<config, concurrency, hostVars, storeVars, rateLimiter, delivered,
                   failures, gateVars>>

\* getDefaultBranch: repos.get; a failure reaches the catch of applyAutoFix
GetDefaultBranch(s) ==
    /\ At(s, "getDefaultBranch")
    /\ \E ok \in BOOLEAN :
         /\ Outcome(ok)
         /\ runs' = Goto(s, IF ok THEN "createBranch" ELSE "recordAutoFixAttempt",
                         "repos.get", ok)
    /\ UNCHANGED <<config, concurrency, hostVars, storeVars, rateLimiter, delivered,
                   gateVars>>

fileActions == {"create", "update", "delete"}

\* the first call applyFileChange makes for a file edit
FileStep(file) ==
    CASE file.action = "create" -> "createFile"
      [] file.action = "update" -> "getContentForUpdate"
      [] file.action = "delete" -> "getContentForDelete"

\* the for loop of applyAutoFix with the test on changedFiles left out
LoopFromNoEmptyTest(autoFix, n, changedFiles) ==
    LET rest == {k \in n..Len(autoFix.files) : autoFix.files[k].action \in {"create", "update", "delete"}}
    IN IF rest # {}
       THEN LET k == CHOOSE m \in rest : \A o \in rest : m <= o
            IN [pc |-> CASE autoFix.files[k].action = "create" -> "createFile"
                         [] autoFix.files[k].action = "update" -> "getContentForUpdate"
                         [] OTHER -> "getContentForDelete",
                fileIndex |-> k]
       ELSE [pc |-> "createPullRequest", fileIndex |-> Len(autoFix.files) + 1]

\* the for loop of applyAutoFix from index n on (an edit whose action is none of
\* the three returns false without a call), then the test on changedFiles
LoopFrom(autoFix, n, changedFiles) ==
    LET rest == {k \in n..Len(autoFix.files) : autoFix.files[k].action \in fileActions}
    IN IF rest # {}
       THEN LET k == CHOOSE m \in rest : \A o \in rest : m <= o
            IN [pc |-> FileStep(autoFix.files[k]), fileIndex |-> k]
       ELSE [pc |-> IF Len(changedFiles) = 0 THEN "recordAutoFixAttempt"
                    ELSE "createPullRequest",
             fileIndex |-> Len(autoFix.files) + 1]

\* applyAutoFix giving up when createBranch throws
CreateBranchFatal(s) ==
    /\ At(s, "createBranch")
    /\ \E callOk \in BOOLEAN :
         /\ Outcome(callOk)
         /\ LET i == runs[s].issue
                ok == callOk /\ i \notin branches
                loop == LoopFrom(runs[s].autoFix, 1, <<>>)
            IN /\ branches' = IF ok THEN branches \cup {i} ELSE branches
               /\ branchFiles' = IF ok THEN [branchFiles EXCEPT ![i] = BaseTree]
                                 ELSE branchFiles
               /\ runs' = [Goto(s, IF ok THEN loop.pc ELSE "recordAutoFixAttempt",
                                "git.createRef", ok)
                             EXCEPT ![s].fileIndex = loop.fileIndex,
                                    ![s].changedFiles = <<>>]
    /\ UNCHANGED <<config, concurrency, issueLabels, issueState, pullRequests, storeVars,
                   rateLimiter, delivered, gateVars>>

\* createBranch: git.getRef and git.createRef; createRef is refused when the
\* branch exists; every failure is swallowed by applyAutoFix
CreateBranch(s) ==
    /\ At(s, "createBranch")
    /\ \E callOk \in BOOLEAN :
         /\ Outcome(callOk)
         /\ LET i == runs[s].issue
                ok == callOk /\ i \notin branches
                loop == LoopFrom(runs[s].autoFix, 1, <<>>)
            IN /\ branches' = IF ok THEN branches \cup {i} ELSE branches
               /\ branchFiles' = IF ok THEN [branchFiles EXCEPT ![i] = BaseTree]
                                 ELSE branchFiles
               /\ runs' = [Goto(s, loop.pc, "git.createRef", ok)
                             EXCEPT ![s].fileIndex = loop.fileIndex,
                                    ![s].changedFiles = <<>>]
    /\ UNCHANGED <<config, concurrency, issueLabels, issueState, pullRequests, storeVars,
                   rateLimiter, delivered, gateVars>>

\* the file edit applyFileChange is working on
CurrentFile(s) == runs[s].autoFix.files[runs[s].fileIndex]

\* applyAutoFix giving up at the first file that was not changed
FileDoneFatal(s, op, ok, changed) ==
    IF changed
    THEN LET changedFiles == Append(runs[s].changedFiles,
                                    runs[s].autoFix.files[runs[s].fileIndex].path)
             rest == {k \in (runs[s].fileIndex + 1)..Len(runs[s].autoFix.files) : TRUE}
         IN [Goto(s, IF rest = {} THEN "createPullRequest"
                     ELSE CASE runs[s].autoFix.files[runs[s].fileIndex + 1].action = "create"
                                 -> "createFile"
                            [] runs[s].autoFix.files[runs[s].fileIndex + 1].action = "update"
                                 -> "getContentForUpdate"
                            [] OTHER -> "getContentForDelete",
                  op, ok)
               EXCEPT ![s].fileIndex = runs[s].fileIndex + 1,
                      ![s].changedFiles = changedFiles]
    ELSE Goto(s, "recordAutoFixAttempt", op, ok)

\* the run after applyFileChange returned `changed` for the current file
FileDone(s, op, ok, changed) ==
    LET changedFiles == IF changed THEN Append(runs[s].changedFiles, CurrentFile(s).path)
                        ELSE runs[s].changedFiles
        loop == LoopFrom(runs[s].autoFix, runs[s].fileIndex + 1, changedFiles)
    IN [Goto(s, loop.pc, op, ok) EXCEPT ![s].fileIndex = loop.fileIndex,
                                        ![s].changedFiles = changedFiles]

\* applyFileChange, action create (also reached from an update whose target is
\* missing): repos.createOrUpdateFileContents without sha, which the platform
\* refuses for a branch that does not exist and for a path the branch holds
CreateFile(s) ==
    /\ At(s, "createFile")
    /\ \E callOk \in BOOLEAN :
         /\ Outcome(callOk)
         /\ LET i == runs[s].issue
                file == CurrentFile(s)
                ok == callOk /\ i \in branches /\ file.path \notin PathsOf(branchFiles[i])
            IN /\ branchFiles' =
                    IF ok THEN [branchFiles EXCEPT ![i] =
                                    WriteFile(@, file.path, WrittenContent(file))]
                    ELSE branchFiles
               /\ runs' = FileDone(s, "repos.createOrUpdateFileContents", ok, ok)
    /\ UNCHANGED <<config, concurrency, issueLabels, issueState, branches, pullRequests,
                   storeVars, rateLimiter, delivered, gateVars>>

\* applyFileChange returning false for an update whose repos.getContent throws
GetContentForUpdateNoFallback(s) ==
    /\ At(s, "getContentForUpdate")
    /\ \E callOk \in BOOLEAN :
         /\ Outcome(callOk)
         /\ LET i == runs[s].issue
                ok == callOk /\ i \in branches /\ CurrentFile(s).path \in PathsOf(branchFiles[i])
            IN runs' = IF ok THEN Goto(s, "updateFile", "repos.getContent", TRUE)
                       ELSE FileDone(s, "repos.getContent", FALSE, FALSE)
    /\ UNCHANGED <<config, concurrency, hostVars, storeVars, rateLimiter, delivered,
                   gateVars>>

\* applyFileChange, action update, first call: repos.getContent; when it throws
\* the edit is applied again as a create
GetContentForUpdate(s) ==
    /\ At(s, "getContentForUpdate")
    /\ \E callOk \in BOOLEAN :
         /\ Outcome(callOk)
         /\ LET i == runs[s].issue
                ok == callOk /\ i \in branches /\ CurrentFile(s).path \in PathsOf(branchFiles[i])
            IN runs' = Goto(s, IF ok THEN "updateFile" ELSE "createFile",
                            "repos.getContent", ok)
    /\ UNCHANGED <<config, concurrency, hostVars, storeVars, rateLimiter, delivered,
                   gateVars>>

\* applyFileChange, action update, second call: repos.createOrUpdateFileContents
\* with the sha that was fetched
UpdateFile(s) ==
    /\ At(s, "updateFile")
    /\ \E ok \in BOOLEAN :
         /\ Outcome(ok)
         /\ branchFiles' =
              IF ok THEN [branchFiles EXCEPT ![runs[s].issue] =
                              WriteFile(@, CurrentFile(s).path, WrittenContent(CurrentFile(s)))]
              ELSE branchFiles
         /\ runs' = FileDone(s, "repos.createOrUpdateFileContents", ok, ok)
    /\ UNCHANGED <<config, concurrency, issueLabels, issueState, branches, pullRequests,
                   storeVars, rateLimiter, delivered, gateVars>>

\* applyFileChange, action delete, first call: repos.getContent
GetContentForDelete(s) ==
    /\ At(s, "getContentForDelete")
    /\ \E callOk \in BOOLEAN :
         /\ Outcome(callOk)
         /\ LET i == runs[s].issue
                ok == callOk /\ i \in branches /\ CurrentFile(s).path \in PathsOf(branchFiles[i])
            IN runs' = IF ok THEN Goto(s, "deleteFile", "repos.getContent", TRUE)
                       ELSE FileDone(s, "repos.getContent", FALSE, FALSE)
    /\ UNCHANGED <<config, concurrency, hostVars, storeVars, rateLimiter, delivered,
                   gateVars>>

\* applyFileChange, action delete, second call: repos.deleteFile
DeleteFile(s) ==
    /\ At(s, "deleteFile")
    /\ \E ok \in BOOLEAN :
         /\ Outcome(ok)
         /\ branchFiles' = IF ok THEN [branchFiles EXCEPT ![runs[s].issue] =
                                          RemoveFile(@, CurrentFile(s).path)]
                           ELSE branchFiles
         /\ runs' = FileDone(s, "repos.deleteFile", ok, ok)
    /\ UNCHANGED <<config, concurrency, issueLabels, issueState, branches, pullRequests,
                   storeVars, rateLimiter, delivered, gateVars>>

\* pulls.create, which the platform refuses while a change request of the
\* branch is open; a failure reaches the catch of applyAutoFix
CreatePullRequest(s) ==
    /\ At(s, "createPullRequest")
    /\ \E callOk \in BOOLEAN :
         /\ Outcome(callOk)
         /\ LET ok == callOk /\ pullRequests[runs[s].issue] # "open" IN
            /\ pullRequests' = IF ok THEN [pullRequests EXCEPT ![runs[s].issue] = "open"]
                               ELSE pullRequests
            /\ runs' = Goto(s, IF ok THEN "addPRLabels" ELSE "recordAutoFixAttempt",
                            "pulls.create", ok)
    /\ UNCHANGED <<config, concurrency, issueLabels, issueState, branches, branchFiles,
                   storeVars, rateLimiter, delivered, gateVars>>

\* addPRLabels: a failure is logged and swallowed
AddPRLabels(s) ==
    /\ At(s, "addPRLabels")
    /\ \E ok \in BOOLEAN :
         /\ Outcome(ok)
         /\ runs' = Goto(s, "addIssueComment", "addLabels:pr", ok)
    /\ UNCHANGED <<config, concurrency, hostVars, storeVars, rateLimiter, delivered,
                   gateVars>>

\* addIssueComment: a failure is logged and swallowed; then return true
AddIssueComment(s) ==
    /\ At(s, "addIssueComment")
    /\ \E ok \in BOOLEAN :
         /\ Outcome(ok)
         /\ runs' = [Goto(s, "recordAutoFixAttempt", "createComment:autofix", ok)
                       EXCEPT ![s].success = TRUE]
    /\ UNCHANGED <<config, concurrency, hostVars, storeVars, rateLimiter, delivered,
                   gateVars>>

\* recordAutoFixAttempt writing the result without the attempted flag
RecordAutoFixAttemptResultOnly(s) ==
    /\ At(s, "recordAutoFixAttempt")
    /\ \E ok \in BOOLEAN :
         /\ Outcome(ok)
         /\ LET i == runs[s].issue IN
            records' =
              IF ok /\ records[i] # NoRecord
              THEN [records EXCEPT ![i].autoFixSuccessful =
                                       IF runs[s].success THEN "true" ELSE "false"]
              ELSE records
         /\ runs' = Goto(s, IF ok THEN "addIssueLogAutoFix" ELSE "done",
                         "db.recordAutoFixAttempt", ok)
    /\ UNCHANGED <<config, concurrency, hostVars, issueLogs, rateLimiter, delivered,
                   gateVars>>

\* attemptAutoFix: recordAutoFixAttempt(issueId, success), an UPDATE of the row
\* with that id; a failure reaches the catch of attemptAutoFix
RecordAutoFixAttempt(s) ==
    /\ At(s, "recordAutoFixAttempt")
    /\ \E ok \in BOOLEAN :
         /\ Outcome(ok)
         /\ LET i == runs[s].issue IN
            records' =
              IF ok /\ records[i] # NoRecord
              THEN [records EXCEPT ![i].autoFixAttempted = TRUE,
                                   ![i].autoFixSuccessful =
                                       IF runs[s].success THEN "true" ELSE "false"]
              ELSE records
         /\ runs' = Goto(s, IF ok THEN "addIssueLogAutoFix" ELSE "done",
                         "db.recordAutoFixAttempt", ok)
    /\ UNCHANGED <<config, concurrency, hostVars, issueLogs, rateLimiter, delivered,
                   gateVars>>

\* attemptAutoFix writing its log entry for a successful applyAutoFix only
AddIssueLogAutoFixOnSuccess(s) ==
    /\ At(s, "addIssueLogAutoFix")
    /\ IF runs[s].success
       THEN \E ok \in BOOLEAN :
              /\ Outcome(ok)
              /\ issueLogs' =
                   IF ok THEN Append(issueLogs, <<runs[s].issue, "auto_fix_attempted", TRUE>>)
                   ELSE issueLogs
              /\ runs' = Goto(s, "done", "db.addIssueLog:auto_fix_attempted", ok)
       ELSE /\ runs' = [runs EXCEPT ![s].pc = "done"]
            /\ UNCHANGED <<issueLogs, failures>>
    /\ UNCHANGED <<config, concurrency, hostVars, records, rateLimiter, delivered,
                   gateVars>>

\* attemptAutoFix: addIssueLog(issueId, 'auto_fix_attempted', {success, autoFix})
AddIssueLogAutoFix(s) ==
    /\ At(s, "addIssueLogAutoFix")
    /\ \E ok \in BOOLEAN :
         /\ Outcome(ok)
         /\ issueLogs' =
              IF ok THEN Append(issueLogs, <<runs[s].issue, "auto_fix_attempted", runs[s].success>>)
              ELSE issueLogs
         /\ runs' = Goto(s, "done", "db.addIssueLog:auto_fix_attempted", ok)
    /\ UNCHANGED <<config, concurrency, hostVars, records, rateLimiter, delivered,
                   gateVars>>

-----------------------------------------------------------------------------
(* issue_comment.created and the commands of GitHubService *)

\* the part of the comment of addErrorComment that quotes the analyze command
ErrorCommentBody == <<"retry", " ", "'", "@issues-bot", " ", "analyze", "'">>

CommentBodies ==
    { <<"thanks", "!">>, ErrorCommentBody,
      <<"@issues-bot", " ", "analyze">>, <<"please", " ", "@Issues-Bot", " ", " ", "Analyze">>,
      <<"@issues-bot", " ", "fix">>, <<"@issues-bot", " ", "suggest">>,
      <<"@issues-bot", " ", "priority">>, <<"@issues-bot", " ", "help">> }

\* the switch of handleCommand: the first call of each command handler
CommandStep(action) ==
    CASE action = "analyze" -> "replyAnalyze"
      [] action = "fix" -> "replyFix"
      [] action = "suggest" -> "replySuggest"
      [] action = "priority" -> "replyPriority"
      [] OTHER -> "replyHelp"

\* the comment handler without the test on the author of the comment
IssueCommentCreatedAnyAuthor(s, i, userType, body) ==
    /\ Free(s)
    /\ delivered < MaxEvents
    /\ delivered' = delivered + 1
    /\ rateLimiter' = Consumed(CommentRateLimiterKey(Repository))
    /\ LET command == ParseCommand(body) IN
       runs' = [runs EXCEPT ![s] =
                  [NewRun("comment", i) EXCEPT
                      !.userType = userType, !.body = body,
                      !.command = IF Consume(CommentRateLimiterKey(Repository))
                                  THEN command ELSE "",
                      !.pc = IF Consume(CommentRateLimiterKey(Repository)) /\ command # ""
                             THEN CommandStep(command) ELSE "done",
                      !.calls = <<<<"rateLimiter.consume", Consume(CommentRateLimiterKey(Repository))>>>>]]
    /\ UNCHANGED <<config, concurrency, hostVars, storeVars, failures, gateVars>>

\* app.on('issue_comment.created'): rateLimiter.consume on the comment key, the
\* test on the author's type, then handleIssueComment up to handleCommand
IssueCommentCreated(s, i, userType, body) ==
    /\ Free(s)
    /\ delivered < MaxEvents
    /\ delivered' = delivered + 1
    /\ rateLimiter' = Consumed(CommentRateLimiterKey(Repository))
    /\ LET command == ParseCommand(body) IN
       runs' = [runs EXCEPT ![s] =
                  [NewRun("comment", i) EXCEPT
                      !.userType = userType, !.body = body,
                      !.command = IF Consume(CommentRateLimiterKey(Repository)) /\ userType # "Bot"
                                  THEN command ELSE "",
                      !.pc = IF Consume(CommentRateLimiterKey(Repository)) /\ userType # "Bot" /\ command # ""
                             THEN CommandStep(command) ELSE "done",
                      !.calls = <<<<"rateLimiter.consume", Consume(CommentRateLimiterKey(Repository))>>>>]]
    /\ UNCHANGED <<config, concurrency, hostVars, storeVars, failures, gateVars>>

replySteps ==
    {"replyAnalyze", "replyFix", "replySuggest", "replyPriority", "replyHelp",
     "replyNotFound"}

\* what follows the addCommandResponse call made at pc
AfterReply(run) ==
    CASE run.pc = "replyPriority" -> "replyAnalyze"
      [] run.pc = "replyAnalyze" -> AfterAdmission(run)
      [] run.pc = "replyFix" -> "fixGetRecord"
      [] run.pc = "replySuggest" -> "suggestGetRecord"
      [] OTHER -> "done"

\* addCommandResponse: a failure is logged and swallowed
AddCommandResponse(s) ==
    /\ runs[s].pc \in replySteps
    /\ \E ok \in BOOLEAN :
         /\ Outcome(ok)
         /\ runs' = Goto(s, AfterReply(runs[s]), "createComment:" \o runs[s].pc, ok)
    /\ UNCHANGED <<config, concurrency, hostVars, storeVars, rateLimiter, delivered,
                   gateVars>>

\* handleFixCommand: getIssueRecord, then attemptAutoFix with the stored analysis;
\* a failed read reaches the catch of handleIssueComment
FixGetRecord(s) ==
    /\ At(s, "fixGetRecord")
    /\ \E ok \in BOOLEAN :
         /\ Outcome(ok)
         /\ LET record == records[runs[s].issue] IN
            runs' =
              IF ~ok THEN Goto(s, "done", "db.getIssueRecord", FALSE)
              ELSE IF record = NoRecord THEN Goto(s, "replyNotFound", "db.getIssueRecord", TRUE)
              ELSE [Goto(s, "generateAutoFix", "db.getIssueRecord", TRUE)
                      EXCEPT ![s].analysis = record.analysis,
                             ![s].solution = record.solution]
    /\ UNCHANGED <<config, concurrency, hostVars, storeVars, rateLimiter, delivered,
                   gateVars>>

\* handleSuggestCommand: getIssueRecord, then generateSolution
SuggestGetRecord(s) ==
    /\ At(s, "suggestGetRecord")
    /\ \E ok \in BOOLEAN :
         /\ Outcome(ok)
         /\ LET record == records[runs[s].issue] IN
            runs' =
              IF ~ok THEN Goto(s, "done", "db.getIssueRecord", FALSE)
              ELSE IF record = NoRecord THEN Goto(s, "replyNotFound", "db.getIssueRecord", TRUE)
              ELSE [Goto(s, "generateSolution", "db.getIssueRecord", TRUE)
                      EXCEPT ![s].analysis = record.analysis]
    /\ UNCHANGED <<config, concurrency, hostVars, storeVars, rateLimiter, delivered,
                   gateVars>>

\* addSolutionComment: a failure reaches the catch of handleIssueComment
AddSolutionComment(s) ==
    /\ At(s, "addSolutionComment")
    /\ \E ok \in BOOLEAN :
         /\ Outcome(ok)
         /\ runs' = Goto(s, "done", "createComment:solution", ok)
    /\ UNCHANGED <<config, concurrency, hostVars, storeVars, rateLimiter, delivered,
                   gateVars>>

-----------------------------------------------------------------------------
(* pull_request.opened / pull_request.closed *)

\* String.prototype.startsWith
StartsWith(str, prefix) ==
    Len(str) >= Len(prefix) /\ SubSeq(str, 1, Len(prefix)) = prefix

\* head refs: a piece of text, then the digits that follow it, read as a number
PullRequestRefs == {<<"autofix/issue-", i>> : i \in Issues} \cup {<<"feature/", 1>>}

\* app.on(['pull_request.opened', 'pull_request.closed']) up to its first call.
\* An event of an autofix branch is delivered for the change request the bot
\* opened; a closed event follows the closing of that request.
PullRequestEvent(s, action, merged, ref) ==
    /\ Free(s)
    /\ delivered < MaxEvents
    /\ action = "opened" => ~merged
    /\ LET isAutoFix == StartsWith(ref, <<"autofix/issue-">>)
           issueNumber == ref[2]
       IN /\ isAutoFix => pullRequests[issueNumber] = "open"
          /\ pullRequests' =
               IF isAutoFix /\ action = "closed"
               THEN [pullRequests EXCEPT ![issueNumber] = IF merged THEN "merged" ELSE "closed"]
               ELSE pullRequests
          /\ runs' = [runs EXCEPT ![s] =
                        [IdleRun EXCEPT
                            !.kind = "pr",
                            !.issue = IF isAutoFix THEN issueNumber ELSE 0,
                            !.pr = [action |-> action, merged |-> merged, ref |-> ref[1],
                                    issue |-> ref[2]],
                            !.pc = IF isAutoFix THEN "prAddIssueLog" ELSE "done"]]
    /\ delivered' = delivered + 1
    /\ UNCHANGED <<config, concurrency, issueLabels, issueState, branches, branchFiles,
                   storeVars, rateLimiter, failures, gateVars>>

\* the handler going on to updateIssueStatus after the log entry of every
\* closed event, merged or not
PrAddIssueLogAnyClose(s) ==
    /\ At(s, "prAddIssueLog")
    /\ \E ok \in BOOLEAN :
         /\ Outcome(ok)
         /\ issueLogs' =
              IF ok THEN Append(issueLogs, <<runs[s].issue, "autofix_pr_" \o runs[s].pr.action>>)
              ELSE issueLogs
         /\ runs' = Goto(s, IF ok /\ runs[s].pr.action = "closed"
                            THEN "updateIssueStatus" ELSE "done",
                         "db.addIssueLog:autofix_pr", ok)
    /\ UNCHANGED <<config, concurrency, hostVars, records, rateLimiter, delivered,
                   gateVars>>

\* addIssueLog(issueId, `autofix_pr_${action}`); a failure reaches the catch
PrAddIssueLog(s) ==
    /\ At(s, "prAddIssueLog")
    /\ \E ok \in BOOLEAN :
         /\ Outcome(ok)
         /\ issueLogs' =
              IF ok THEN Append(issueLogs, <<runs[s].issue, "autofix_pr_" \o runs[s].pr.action>>)
              ELSE issueLogs
         /\ runs' = Goto(s, IF ok /\ runs[s].pr.action = "closed" /\ runs[s].pr.merged
                            THEN "updateIssueStatus" ELSE "done",
                         "db.addIssueLog:autofix_pr", ok)
    /\ UNCHANGED <<config, concurrency, hostVars, records, rateLimiter, delivered,
                   gateVars>>

\* updateIssueStatus(issueId, 'fixed'): an UPDATE of the row with that id
UpdateIssueStatus(s) ==
    /\ At(s, "updateIssueStatus")
    /\ \E ok \in BOOLEAN :
         /\ Outcome(ok)
         /\ LET i == runs[s].issue IN
            records' = IF ok /\ records[i] # NoRecord
                       THEN [records EXCEPT ![i].status = "fixed"]
                       ELSE records
         /\ runs' = Goto(s, IF ok THEN "addAutoFixCompletedComment" ELSE "done",
                         "db.updateIssueStatus", ok)
    /\ UNCHANGED <<config, concurrency, hostVars, issueLogs, rateLimiter, delivered,
                   gateVars>>

\* addAutoFixCompletedComment, first call: issues.createComment
AddAutoFixCompletedComment(s) ==
    /\ At(s, "addAutoFixCompletedComment")
    /\ \E ok \in BOOLEAN :
         /\ Outcome(ok)
         /\ runs' = Goto(s, IF ok THEN "closeIssue" ELSE "done", "createComment:completed", ok)
    /\ UNCHANGED <<config, concurrency, hostVars, storeVars, rateLimiter, delivered,
                   gateVars>>

\* addAutoFixCompletedComment, second call: issues.update(state: 'closed')
CloseIssue(s) ==
    /\ At(s, "closeIssue")
    /\ \E ok \in BOOLEAN :
         /\ Outcome(ok)
         /\ issueState' = IF ok THEN [issueState EXCEPT ![runs[s].issue] = "closed"]
                          ELSE issueState
         /\ runs' = Goto(s, "done", "issues.update:closed", ok)
    /\ UNCHANGED <<config, concurrency, issueLabels, branches, branchFiles, pullRequests,
                   storeVars, rateLimiter, delivered, gateVars>>

-----------------------------------------------------------------------------
(* The environment between two handler runs *)

Quiet == \A s \in Slots : runs[s].pc \in {"idle", "done"}

\* a user sets the labels of an issue that the bot does not manage; the event
\* that follows (issues.labeled, issues.unlabeled) has no handler
UserSetsLabels(i, labels) ==
    /\ Quiet
    /\ delivered < MaxEvents
    /\ delivered' = delivered + 1
    /\ issueLabels[i] \cap UNION UserLabelSets # labels
    /\ issueLabels' = [issueLabels EXCEPT ![i] = (@ \ UNION UserLabelSets) \cup labels]
    /\ UNCHANGED <<config, concurrency, runs, issueState, branches, branchFiles,
                   pullRequests, storeVars, rateLimiter, failures, gateVars>>

\* a user closes or reopens an issue; the event that follows (issues.closed,
\* issues.reopened) has no handler
UserSetsState(i, state) ==
    /\ Quiet
    /\ delivered < MaxEvents
    /\ delivered' = delivered + 1
    /\ issueState[i] # state
    /\ issueState' = [issueState EXCEPT ![i] = state]
    /\ UNCHANGED <<config, concurrency, runs, issueLabels, branches, branchFiles,
                   pullRequests, storeVars, rateLimiter, failures, gateVars>>

\* the window of the rate limiter ends: every key has all its points again
RateLimitWindowEnds ==
    /\ Quiet
    /\ delivered < MaxEvents
    /\ \E k \in DOMAIN rateLimiter : rateLimiter[k] > 0
    /\ rateLimiter' = [k \in DOMAIN rateLimiter |-> 0]
    /\ UNCHANGED <<config, concurrency, runs, hostVars, storeVars, delivered, failures,
                   gateVars>>

Deliver(s) ==
    \/ \E i \in Issues : IssuesOpened(s, i)
    \/ \E i \in Issues : \E changed \in BOOLEAN : IssuesEdited(s, i, changed)
    \/ \E i \in Issues : \E userType \in {"User", "Bot"} : \E body \in CommentBodies :
          IssueCommentCreated(s, i, userType, body)
    \/ \E action \in {"opened", "closed"} : \E merged \in BOOLEAN :
          \E ref \in PullRequestRefs : PullRequestEvent(s, action, merged, ref)

Step(s) ==
    \/ AddRateLimitComment(s)
    \/ AddReanalysisComment(s)
    \/ AddProcessingLabel(s)
    \/ AnalyzeIssue(s)
    \/ SaveIssueRecord(s)
    \/ AddIssueLogAnalyzed(s)
    \/ RemoveLabel(s)
    \/ AddLabels(s)
    \/ GenerateSolution(s)
    \/ SolutionGetRecord(s)
    \/ SolutionSaveRecord(s)
    \/ AddAnalysisComment(s)
    \/ AddErrorComment(s)
    \/ GenerateAutoFix(s)
    \/ ApplyAutoFixGate(s)
    \/ GetDefaultBranch(s)
    \/ CreateBranch(s)
    \/ CreateFile(s)
    \/ GetContentForUpdate(s)
    \/ UpdateFile(s)
    \/ GetContentForDelete(s)
    \/ DeleteFile(s)
    \/ CreatePullRequest(s)
    \/ AddPRLabels(s)
    \/ AddIssueComment(s)
    \/ RecordAutoFixAttempt(s)
    \/ AddIssueLogAutoFix(s)
    \/ AddCommandResponse(s)
    \/ FixGetRecord(s)
    \/ SuggestGetRecord(s)
    \/ AddSolutionComment(s)
    \/ PrAddIssueLog(s)
    \/ UpdateIssueStatus(s)
    \/ AddAutoFixCompletedComment(s)
    \/ CloseIssue(s)

Environment ==
    \/ \E i \in Issues : \E labels \in UserLabelSets : UserSetsLabels(i, labels)
    \/ \E i \in Issues : \E state \in {"open", "closed"} : UserSetsState(i, state)
    \/ RateLimitWindowEnds

Next == (\E s \in Slots : Deliver(s) \/ Step(s)) \/ Environment

Spec == Init /\ [][Next]_vars

-----------------------------------------------------------------------------
(* The analysis pipeline with two handler invocations in progress at once: a  *)
(* handler is an async function, and a second event is taken up while the    *)
(* first awaits a call.  The auto-fix feature is off.                         *)

InitConcurrent ==
    /\ config = [autoFixEnabled |-> FALSE,
                 confidenceThreshold |-> ConfidenceThreshold,
                 maxAutoFixComplexity |-> MaxAutoFixComplexity]
    /\ concurrency = 2
    /\ runs = [s \in Slots |-> IdleRun]
    /\ issueLabels = [i \in Issues |-> {}]
    /\ issueState = [i \in Issues |-> "open"]
    /\ branches = {}
    /\ branchFiles = [i \in Issues |-> {}]
    /\ pullRequests = [i \in Issues |-> "none"]
    /\ records = [i \in Issues |-> NoRecord]
    /\ issueLogs = <<>>
    /\ rateLimiter = [k \in {IssueRateLimiterKey(Repository),
                              CommentRateLimiterKey(Repository)} |-> 0]
    /\ delivered = 0
    /\ failures = 0
    /\ GateQuiet

NextConcurrent ==
    \E s \in Slots :
        \/ \E i \in Issues : IssuesOpened(s, i)
        \/ \E i \in Issues : \E changed \in BOOLEAN : IssuesEdited(s, i, changed)
        \/ AddRateLimitComment(s)
        \/ AddReanalysisComment(s)
        \/ AddProcessingLabel(s)
        \/ AnalyzeIssue(s)
        \/ SaveIssueRecord(s)
        \/ AddIssueLogAnalyzed(s)
        \/ RemoveLabel(s)
        \/ AddLabels(s)
        \/ GenerateSolution(s)
        \/ SolutionGetRecord(s)
        \/ SolutionSaveRecord(s)
        \/ AddAnalysisComment(s)
        \/ AddErrorComment(s)

SpecConcurrent == InitConcurrent /\ [][NextConcurrent]_vars

-----------------------------------------------------------------------------
(* Command and change-request handlers in progress at once on an issue that  *)
(* was analysed before, the auto-fix feature being off: the `fix` command    *)
(* still runs attemptAutoFix.                                                *)

\* what a run of handleIssueOpened in which every call succeeded has stored
StoredAnalysis ==
    ParseAnalysisResponse(CHOOSE c \in AnalysisCompletions : c.confidence = 90)
StoredSolution ==
    ParseSolutionResponse(CHOOSE c \in SolutionCompletions : c.shape = "object")

\* the commands whose handlers write to the record of the issue
StoreCommands == { <<"@issues-bot", " ", "fix">>, <<"@issues-bot", " ", "suggest">> }

\* the state such a run leaves, seen from the next event
InitInterleaved ==
    /\ config = [autoFixEnabled |-> FALSE,
                 confidenceThreshold |-> ConfidenceThreshold,
                 maxAutoFixComplexity |-> MaxAutoFixComplexity]
    /\ concurrency = 2
    /\ runs = [s \in Slots |-> IdleRun]
    /\ issueLabels = [i \in Issues |-> {"issues-bot:analyzed"} \cup AnalysisLabels(StoredAnalysis)]
    /\ issueState = [i \in Issues |-> "open"]
    /\ branches = {}
    /\ branchFiles = [i \in Issues |-> {}]
    /\ pullRequests = [i \in Issues |-> "none"]
    /\ records = [i \in Issues |->
                    [AnalyzedRecord(StoredAnalysis) EXCEPT !.solution = StoredSolution]]
    /\ issueLogs = << <<1, "analyzed">> >>
    /\ rateLimiter = [k \in {IssueRateLimiterKey(Repository),
                              CommentRateLimiterKey(Repository)} |-> 0]
    /\ delivered = 0
    /\ failures = 0
    /\ GateQuiet

NextInterleaved ==
    \E s \in Slots :
        \/ \E i \in Issues : \E body \in StoreCommands :
              IssueCommentCreated(s, i, "User", body)
        \/ \E action \in {"opened", "closed"} : \E merged \in BOOLEAN :
              \E ref \in PullRequestRefs : PullRequestEvent(s, action, merged, ref)
        \/ AddCommandResponse(s)
        \/ FixGetRecord(s)
        \/ SuggestGetRecord(s)
        \/ GenerateSolution(s)
        \/ SolutionGetRecord(s)
        \/ SolutionSaveRecord(s)
        \/ AddSolutionComment(s)
        \/ GenerateAutoFix(s)
        \/ ApplyAutoFixGate(s)
        \/ GetDefaultBranch(s)
        \/ CreateBranch(s)
        \/ CreateFile(s)
        \/ GetContentForUpdate(s)
        \/ UpdateFile(s)
        \/ GetContentForDelete(s)
        \/ DeleteFile(s)
        \/ CreatePullRequest(s)
        \/ AddPRLabels(s)
        \/ AddIssueComment(s)
        \/ RecordAutoFixAttempt(s)
        \/ AddIssueLogAutoFix(s)
        \/ PrAddIssueLog(s)
        \/ UpdateIssueStatus(s)
        \/ AddAutoFixCompletedComment(s)
        \/ CloseIssue(s)

SpecInterleaved == InitInterleaved /\ [][NextInterleaved]_vars

-----------------------------------------------------------------------------
(* Inputs of the gate harness *)

MaxGateFiles == 4

GatePaths ==
    { <<"src/", "app.ts">>, <<"package.json">>, <<"web/", "package.json">>,
      <<"my", ".env">>, <<".env", ".local">>, <<"Dockerfile", ".bak">> }

GateContents ==
    { <<>>, <<"x">>,
      <<"rm", " ", "-rf">>, <<"RM", " ", "\t", "-rf">>, <<"rm", "-rf">>,
      <<"x", "SUDO">>, <<"chmod", " ", "777">>, <<"Password">>, <<"Secret", "x">>,
      <<"API", "key">>, <<"api", "_", "key">>, <<"private", "-", "key">>,
      <<"api", " ", "key">> }

GateFileEdits ==
    [path : GatePaths, action : {"update"}, hasContent : {TRUE}, content : GateContents]
    \cup [path : GatePaths, action : {"update"}, hasContent : {FALSE}, content : {<<>>}]

\* every file list of up to MaxGateFiles edits in which all edits but one
\* are one fixed harmless edit
PlainEdit ==
    [path |-> <<"src/", "app.ts">>, action |-> "update", hasContent |-> TRUE,
     content |-> <<"x">>]

GateFileLists ==
    {<<>>} \cup
    UNION { { [n \in 1..k |-> IF n = at THEN f ELSE PlainEdit] : at \in 1..k } :
        f \in GateFileEdits, k \in 1..MaxGateFiles }

GateAutoFixes ==
    [ type : {"code_change"},
      files : GateFileLists,
      confidence : {0, 79, 80, 100, NaN},
      riskLevel : {"low", "medium", "high"},
      testRequired : {FALSE} ]

GateConfigs ==
    [ autoFixEnabled : {TRUE},
      confidenceThreshold : {ConfidenceThreshold},
      maxAutoFixComplexity : {MaxAutoFixComplexity} ]

InitGate ==
    /\ PipelineQuiet
    /\ config \in GateConfigs
    /\ gateInput \in GateAutoFixes
    /\ gatePc = "ready"
    /\ gateResult = FALSE
    /\ rateEvent = NoRateEvent
    /\ issuesTable = <<>>
    /\ saveCalls = NoSaveCalls
    /\ parseCall = NoParseCall
    /\ editCall = NoEditCall

EvaluateGate ==
    /\ gatePc = "ready"
    /\ gatePc' = "done"
    /\ gateResult' = IsAutoFixSafe(gateInput, NoAnalysis)
    /\ UNCHANGED <<config, gateInput, concurrency, runs, hostVars, storeVars,
                   rateLimiter, delivered, failures, rateEvent, issuesTable, saveCalls,
                   parseCall, editCall>>

\* a second evaluation on an input whose contents were tested before, with the
\* patterns kept between calls as sticky regular expressions: each test starts
\* behind the end of the content and finds nothing
EvaluateGateAgainAfterMatch ==
    /\ gatePc = "done"
    /\ gatePc' = "again"
    /\ gateResult' =
         IsAutoFixSafe([gateInput EXCEPT !.files =
                           [n \in DOMAIN @ |-> [@[n] EXCEPT !.content = <<>>]]],
                       NoAnalysis)
    /\ UNCHANGED <<config, gateInput, concurrency, runs, hostVars, storeVars,
                   rateLimiter, delivered, failures, rateEvent, issuesTable, saveCalls,
                   parseCall, editCall>>

\* isAutoFixSafe called once more on the same arguments: the patterns are
\* regular expression literals without the g or y flag, built anew by each call
EvaluateGateAgain ==
    /\ gatePc = "done"
    /\ gatePc' = "again"
    /\ gateResult' = IsAutoFixSafe(gateInput, NoAnalysis)
    /\ UNCHANGED <<config, gateInput, concurrency, runs, hostVars, storeVars,
                   rateLimiter, delivered, failures, rateEvent, issuesTable, saveCalls,
                   parseCall, editCall>>

NextGate == EvaluateGate \/ EvaluateGateAgain

SpecGate == InitGate /\ [][NextGate]_vars

-----------------------------------------------------------------------------
(* The rate limiter under the events of several repositories *)

RateKeys ==
    {IssueRateLimiterKey(r) : r \in Repositories}
    \cup {CommentRateLimiterKey(r) : r \in Repositories}

InitRate ==
    /\ config \in GateConfigs
    /\ concurrency = 1
    /\ runs = [s \in Slots |-> IdleRun]
    /\ issueLabels = [i \in Issues |-> {}]
    /\ issueState = [i \in Issues |-> "open"]
    /\ branches = {}
    /\ branchFiles = [i \in Issues |-> {}]
    /\ pullRequests = [i \in Issues |-> "none"]
    /\ records = [i \in Issues |-> NoRecord]
    /\ issueLogs = <<>>
    /\ rateLimiter = [k \in RateKeys |-> 0]
    /\ delivered = 0
    /\ failures = 0
    /\ GateQuiet

\* the key an event handler hands to rateLimiter.consume
RateLimiterKeyOf(kind, repository) ==
    IF kind = "comment" THEN CommentRateLimiterKey(repository)
    ELSE IssueRateLimiterKey(repository)

ChannelOf(kind) == IF kind = "comment" THEN "comment" ELSE "issues"

\* an issues.opened, issues.edited or issue_comment.created event of a
\* repository, up to the outcome of `await rateLimiter.consume(rateLimiterKey)`
RateLimitedEvent(kind, repository) ==
    LET key == RateLimiterKeyOf(kind, repository) IN
    /\ rateLimiter' = Consumed(key)
    /\ rateEvent' =
         [kind |-> kind, repository |-> repository, accepted |-> Consume(key),
          used |-> IF Consume(key)
                   THEN [rateEvent.used EXCEPT ![repository][ChannelOf(kind)] = @ + 1]
                   ELSE rateEvent.used]
    /\ UNCHANGED <<config, concurrency, runs, hostVars, storeVars, delivered, failures,
                   gateInput, gatePc, gateResult, issuesTable, saveCalls, parseCall, editCall>>

\* the window of the rate limiter ends for every key
RateWindowEnds ==
    /\ \E k \in DOMAIN rateLimiter : rateLimiter[k] > 0
    /\ rateLimiter' = [k \in DOMAIN rateLimiter |-> 0]
    /\ rateEvent' = NoRateEvent
    /\ UNCHANGED <<config, concurrency, runs, hostVars, storeVars, delivered, failures,
                   gateInput, gatePc, gateResult, issuesTable, saveCalls, parseCall, editCall>>

NextRate ==
    \/ \E kind \in {"opened", "edited", "comment"} : \E repository \in Repositories :
          RateLimitedEvent(kind, repository)
    \/ RateWindowEnds

SpecRate == InitRate /\ [][NextRate]_vars

-----------------------------------------------------------------------------
(* DatabaseService.saveIssueRecord under calls that overlap *)

MaxPendingSaves == 2

\* the records handed to saveIssueRecord
SaveInputs ==
    {AnalyzedRecord(ParseAnalysisResponse(content)) : content \in AnalysisCompletions}
    \cup {[AnalyzedRecord(FallbackAnalysis) EXCEPT !.status = "fixed"]}

\* INSERT into issues with no conflict clause
InsertOnly(rows, row) == Append(rows, row)

\* INSERT OR REPLACE INTO issues: id is the PRIMARY KEY, so the rows that hold
\* the id of the new row are deleted before it is inserted
InsertOrReplace(rows, row) ==
    Append(SelectSeq(rows, LAMBDA r : r.id # row.id), row)

\* saveIssueRecord is called: the statement is handed to the database
SaveCalled(id, record) ==
    /\ Cardinality(saveCalls.pending) < MaxPendingSaves
    /\ [id |-> id, record |-> record] \notin saveCalls.pending
    /\ saveCalls' = [saveCalls EXCEPT !.pending = @ \cup {[id |-> id, record |-> record]}]
    /\ UNCHANGED <<config, concurrency, runs, hostVars, storeVars, rateLimiter, delivered,
                   failures, gateInput, gatePc, gateResult, rateEvent, issuesTable,
                   parseCall, editCall>>

\* the database runs one of the statements it was handed, in any order, and the
\* promise of that call resolves
SaveCompleted(row) ==
    /\ row \in saveCalls.pending
    /\ issuesTable' = InsertOrReplace(issuesTable, row)
    /\ saveCalls' = [pending |-> saveCalls.pending \ {row},
                     last |-> [saveCalls.last EXCEPT ![row.id] = row.record],
                     previous |-> [saveCalls.previous EXCEPT ![row.id] = saveCalls.last[row.id]]]
    /\ UNCHANGED <<config, concurrency, runs, hostVars, storeVars, rateLimiter, delivered,
                   failures, gateInput, gatePc, gateResult, rateEvent, parseCall, editCall>>

\* the statement fails: the promise rejects and the table is as it was
SaveRejected(row) ==
    /\ row \in saveCalls.pending
    /\ saveCalls' = [saveCalls EXCEPT !.pending = @ \ {row}]
    /\ UNCHANGED <<config, concurrency, runs, hostVars, storeVars, rateLimiter, delivered,
                   failures, gateInput, gatePc, gateResult, rateEvent, issuesTable,
                   parseCall, editCall>>

NextStore ==
    \/ \E id \in IssueIds : \E record \in SaveInputs : SaveCalled(id, record)
    \/ \E row \in saveCalls.pending : SaveCompleted(row)
    \/ \E row \in saveCalls.pending : SaveRejected(row)

SpecStore == InitRate /\ [][NextStore]_vars

-----------------------------------------------------------------------------
(* AIService.parseAnalysisResponse over the completions of the model *)

\* enum IssueType, IssueSeverity, IssuePriority
IssueTypes ==
    {"bug", "feature", "documentation", "security", "performance", "configuration",
     "dependency", "test", "refactor", "other"}
IssueSeverities == {"low", "medium", "high", "critical"}
IssuePriorities == {"low", "medium", "high", "urgent"}

\* the key sets of the JSON objects: all required fields with or without the
\* optional ones, and the required fields but one
ParseKeySets ==
    {requiredAnalysisFields \cup optional : optional \in SUBSET {"suggestedLabels", "autoFixable"}}
    \cup {requiredAnalysisFields \ {field} : field \in requiredAnalysisFields}

\* completion texts: text that is no JSON, JSON that is no object, and JSON
\* objects; a confidence of NaN stands for a value that is no number ("high")
ParseContents ==
    [ shape : {"object"}, keys : ParseKeySets,
      type : {"bug", "banana"}, severity : {"critical", "blocker"},
      priority : {"urgent", "p0"}, confidence : {-50, 0, 30, 100, 150, NaN},
      suggestedLabels : {{"bug"}}, autoFixable : BOOLEAN ]
    \cup [ shape : {"text", "scalar"}, keys : {{}},
           type : {""}, severity : {""}, priority : {""}, confidence : {0},
           suggestedLabels : {{}}, autoFixable : {FALSE} ]

InitParse ==
    /\ config \in GateConfigs
    /\ PipelineQuiet
    /\ gateInput = NoAutoFix
    /\ gatePc = "done"
    /\ gateResult = FALSE
    /\ rateEvent = NoRateEvent
    /\ issuesTable = <<>>
    /\ saveCalls = NoSaveCalls
    /\ parseCall \in [kind : {"analysis"}, done : {FALSE}, content : ParseContents]
    /\ editCall = NoEditCall

\* analyzeIssue, line 53: parseAnalysisResponse(response.content)
ParseAnalysis ==
    /\ parseCall.kind = "analysis"
    /\ ~parseCall.done
    /\ parseCall' = [kind |-> "analysis", done |-> TRUE, content |-> parseCall.content,
                     result |-> ParseAnalysisResponse(parseCall.content)]
    /\ UNCHANGED <<config, concurrency, runs, hostVars, storeVars, rateLimiter, delivered,
                   failures, gateInput, gatePc, gateResult, rateEvent, issuesTable,
                   saveCalls, editCall>>

NextParse == ParseAnalysis

SpecParse == InitParse /\ [][NextParse]_vars

-----------------------------------------------------------------------------
(* AutoFixService.applyFileChange, action update, on a file that exists on   *)
(* the branch: getContent, then createOrUpdateFileContents with the sha of   *)
(* the blob that was fetched.  Another writer may commit in between.          *)

MaxLines == 3
MaxEdits == 2

Line(k) == <<"line", k>>

\* files of one to MaxLines lines
OriginalContents == {[k \in 1..n |-> Line(k)] : n \in 1..MaxLines}

changeTypes == {"add", "remove", "replace"}

\* every list of up to MaxEdits changes with line numbers from one before the
\* first line to one after the last; the content of a change tells its place
\* in the list
ChangeLists ==
    UNION { { [j \in 1..m |-> [lineNumber |-> f[j].lineNumber, type |-> f[j].type,
                                content |-> <<"new", j>>]] :
                f \in [1..m -> [lineNumber : 0..(MaxLines + 1), type : changeTypes]] } :
            m \in 0..MaxEdits }

\* fileChange.content: undefined, '' or a text
FullContent == << <<"full", 1>>, <<"full", 2>> >>

UpdateEdits ==
    { [hasContent |-> c.hasContent, content |-> c.content, changes |-> changes] :
        c \in { [hasContent |-> FALSE, content |-> <<>>],
                [hasContent |-> TRUE, content |-> <<>>],
                [hasContent |-> TRUE, content |-> FullContent] },
        changes \in ChangeLists }

\* a file of twenty lines with an addition at line 10 and a removal at line 5
TwentyLines == [k \in 1..20 |-> Line(k)]
AddTenRemoveFive ==
    << [lineNumber |-> 10, type |-> "add", content |-> <<"X", 0>>],
       [lineNumber |-> 5, type |-> "remove", content |-> <<"", 0>>] >>

NoCommit == [content |-> <<>>, sha |-> 0, accepted |-> FALSE]

EditCalls ==
    { [pc |-> "ready", blob |-> [content |-> o, sha |-> 1], fileChange |-> e,
       existingFile |-> [content |-> <<>>, sha |-> 0], commit |-> NoCommit] :
        o \in OriginalContents, e \in UpdateEdits }
    \cup
    { [pc |-> "ready", blob |-> [content |-> TwentyLines, sha |-> 1],
       fileChange |-> [hasContent |-> FALSE, content |-> <<>>, changes |-> AddTenRemoveFive],
       existingFile |-> [content |-> <<>>, sha |-> 0], commit |-> NoCommit] }

InitEdits ==
    /\ config \in GateConfigs
    /\ PipelineQuiet
    /\ gateInput = NoAutoFix
    /\ gatePc = "done"
    /\ gateResult = FALSE
    /\ rateEvent = NoRateEvent
    /\ issuesTable = <<>>
    /\ saveCalls = NoSaveCalls
    /\ parseCall = NoParseCall
    /\ editCall \in EditCalls

\* lines 219-227: repos.getContent(path, ref: branchName) returns the blob
GetContentOfUpdate ==
    /\ editCall.pc = "ready"
    /\ editCall' = [editCall EXCEPT !.pc = "fetched", !.existingFile = editCall.blob]
    /\ UNCHANGED <<config, concurrency, runs, hostVars, storeVars, rateLimiter, delivered,
                   failures, gateInput, gatePc, gateResult, rateEvent, issuesTable,
                   saveCalls, parseCall>>

\* someone else commits to the file between the two calls
OtherCommit ==
    /\ editCall.pc = "fetched"
    /\ editCall.blob.sha = editCall.existingFile.sha
    /\ editCall' = [editCall EXCEPT !.blob = [content |-> <<<<"other", 1>>>> \o @.content,
                                              sha |-> @.sha + 1]]
    /\ UNCHANGED <<config, concurrency, runs, hostVars, storeVars, rateLimiter, delivered,
                   failures, gateInput, gatePc, gateResult, rateEvent, issuesTable,
                   saveCalls, parseCall>>

\* the new content computed without looking at fileChange.changes
NewContentIgnoringChanges(fileChange, originalContent) ==
    [defined |-> fileChange.hasContent, content |-> fileChange.content]

\* lines 235-241: newContent = fileChange.content, replaced by the result of
\* applyFileChanges when fileChange.changes is a non-empty list
NewContent(fileChange, originalContent) ==
    IF fileChange.changes # <<>>
    THEN [defined |-> TRUE, content |-> ApplyFileChanges(originalContent, fileChange.changes)]
    ELSE [defined |-> fileChange.hasContent, content |-> fileChange.content]

\* lines 243-251: createOrUpdateFileContents(content: newContent || '', sha:
\* existingFile.sha); the platform takes the commit when the sha is that of
\* the file on the branch
CommitUpdate ==
    /\ editCall.pc = "fetched"
    /\ LET newContent == NewContent(editCall.fileChange, editCall.existingFile.content)
           written == IF newContent.defined THEN newContent.content ELSE <<>>
           accepted == editCall.existingFile.sha = editCall.blob.sha
       IN editCall' =
            [editCall EXCEPT
                !.pc = "committed",
                !.commit = [content |-> written, sha |-> editCall.existingFile.sha,
                            accepted |-> accepted],
                !.blob = IF accepted THEN [content |-> written, sha |-> @.sha + 1] ELSE @]
    /\ UNCHANGED <<config, concurrency, runs, hostVars, storeVars, rateLimiter, delivered,
                   failures, gateInput, gatePc, gateResult, rateEvent, issuesTable,
                   saveCalls, parseCall>>

NextEdits == GetContentOfUpdate \/ OtherCommit \/ CommitUpdate

SpecEdits == InitEdits /\ [][NextEdits]_vars

-----------------------------------------------------------------------------
(* Properties *)

Calls(s) == runs[s].calls
Made(s, op) == \E k \in 1..Len(Calls(s)) : Calls(s)[k][1] = op
Succeeded(s, op) == \E k \in 1..Len(Calls(s)) : Calls(s)[k] = <<op, TRUE>>

\* the hosting-API mutations applyAutoFix can make
ApplyMutations ==
    {"git.createRef", "repos.createOrUpdateFileContents", "repos.deleteFile",
     "pulls.create", "addLabels:pr", "createComment:autofix"}

\* C1: in a run of applyAutoFix every hosting-API mutation (branch creation, file
\* create/update/delete, change-request creation, label, comment) comes after
\* isAutoFixSafe returned true for the edit set; after it returned false the
\* run makes no such mutation and applyAutoFix reports failure.
C1_GateBeforeMutation ==
    \A s \in Slots :
        /\ \A k \in 1..Len(Calls(s)) :
              Calls(s)[k][1] \in ApplyMutations
                 => \E j \in 1..(k - 1) : Calls(s)[j] = <<"isAutoFixSafe", TRUE>>
        /\ \A j \in 1..Len(Calls(s)) :
              Calls(s)[j] = <<"isAutoFixSafe", FALSE>>
                 => /\ \A k \in (j + 1)..Len(Calls(s)) : Calls(s)[k][1] \notin ApplyMutations
                    /\ ~runs[s].success

\* a run whose edit set the gate rejected has ended, its attempt recorded
C1_Witness ==
    \E s \in Slots :
        /\ runs[s].pc = "done"
        /\ runs[s].gate = "reject"
        /\ Calls(s)[Len(Calls(s)) - 1] = <<"db.recordAutoFixAttempt", TRUE>>
        /\ records[runs[s].issue].autoFixSuccessful = "false"

\* C2: isAutoFixSafe returns false for every edit set with confidence below the
\* threshold, or riskLevel high, or more file edits than maxAutoFixComplexity,
\* or an edited path that is a critical path while riskLevel is not low,
\* whatever the other fields are.
C2_GateRejects ==
    (/\ gatePc = "done"
     /\ gateInput # NoAutoFix
     /\ \/ gateInput.confidence # NaN /\ gateInput.confidence < config.confidenceThreshold
        \/ gateInput.riskLevel = "high"
        \/ Len(gateInput.files) > config.maxAutoFixComplexity
        \/ /\ gateInput.riskLevel # "low"
           /\ \E n \in 1..Len(gateInput.files) :
                 \E critical \in criticalFiles : EndsWith(gateInput.files[n].path, critical))
    => gateResult = FALSE

\* an edit set the gate rejected for its critical path alone
C2_Witness ==
    /\ gatePc = "done"
    /\ gateResult = FALSE
    /\ gateInput.confidence = 100
    /\ gateInput.riskLevel = "medium"
    /\ Len(gateInput.files) = 2
    /\ gateInput.files[2].path = <<"web/", "package.json">>
    /\ gateInput.files[2].content = <<"x">>

\* contents that hold a denylisted pattern: rm -rf, sudo, chmod 777, password,
\* secret, api-key, private-key, in any letter case
DenylistedContents ==
    { <<"rm", " ", "-rf">>, <<"RM", " ", "\t", "-rf">>, <<"x", "SUDO">>,
      <<"chmod", " ", "777">>, <<"Password">>, <<"Secret", "x">>,
      <<"API", "key">>, <<"api", "_", "key">>, <<"private", "-", "key">> }

\* C3: isAutoFixSafe returns false whenever the content of some file edit holds
\* a denylisted pattern, whatever the confidence, the risk level and the paths.
C3_GateRejectsDenylisted ==
    (/\ gatePc = "done"
     /\ gateInput # NoAutoFix
     /\ \E n \in 1..Len(gateInput.files) :
           gateInput.files[n].hasContent /\ gateInput.files[n].content \in DenylistedContents)
    => gateResult = FALSE

\* an edit set that passes every other check and is rejected for the content of
\* its last file, written in capitals
C3_Witness ==
    /\ gatePc = "done"
    /\ gateResult = FALSE
    /\ gateInput.confidence = 100
    /\ gateInput.riskLevel = "low"
    /\ Len(gateInput.files) = MaxAutoFixComplexity
    /\ gateInput.files[MaxAutoFixComplexity].path = <<"src/", "app.ts">>
    /\ gateInput.files[MaxAutoFixComplexity].content = <<"x", "SUDO">>

\* C4: for an edit set with zero file edits the applicator creates no branch,
\* writes no file and opens no change request.
C4_EmptyEditSetNotApplied ==
    \A s \in Slots :
        (runs[s].autoFix # NoAutoFix /\ Len(runs[s].autoFix.files) = 0)
        => /\ ~Made(s, "git.createRef")
           /\ ~Made(s, "repos.createOrUpdateFileContents")
           /\ ~Made(s, "repos.deleteFile")
           /\ ~Made(s, "pulls.create")

\* C5: an issues.opened event, or an issues.edited event with a changed title or
\* body, whose payload issue has a skip label, is not open, or has a marker
\* label of the bot, is a no-op: after the rate limiter let it in, the run makes
\* no call at all (no Analyzer call, no store write, no label change, no comment).
C5_InadmissibleEventIsNoOp ==
    \A s \in Slots :
        (/\ runs[s].kind \in {"opened", "edited"}
         /\ Calls(s)[1] = <<"rateLimiter.consume", TRUE>>
         /\ \/ runs[s].labels \cap {"duplicate", "invalid", "wontfix", "spam"} # {}
            \/ runs[s].state # "open"
            \/ runs[s].labels \cap {"issues-bot:analyzed", "issues-bot:processing"} # {})
        => Len(Calls(s)) = 1

\* the payload issue carries wontfix in some letter case
CarriesWontfix(labels) == \E label \in labels : ToLowerCase(label) = "wontfix"

\* C6: a run for an issues.opened, issues.edited or command-comment event whose
\* payload issue carries the label wontfix, in any letter case, posts no
\* analysis comment and saves no IssueRecord; and no step of such a run
\* creates the record of the issue.
C6_WontfixNeverAnalyzed ==
    \A s \in Slots :
        (runs[s].kind \in {"opened", "edited", "comment"} /\ CarriesWontfix(runs[s].labels))
        => /\ ~Made(s, "createComment:analysis")
           /\ ~Made(s, "db.saveIssueRecord")
           /\ ~Made(s, "ai.analyzeIssue")

\* an analyze command on an issue labelled WontFix was let in by the rate
\* limiter, answered, and its run has ended
C6_Witness ==
    \E s \in Slots :
        /\ runs[s].kind = "comment"
        /\ runs[s].command = "analyze"
        /\ "WontFix" \in runs[s].labels
        /\ runs[s].pc = "done"
        /\ Made(s, "createComment:replyAnalyze")

\* C7: once a run for an issue has completed its analysis stage (the record of
\* the issue is stored), no later issues.opened or issues.edited event for the
\* issue, delivered after that run ended, has the Analyzer return again.
C7_AutomaticAnalysisOnce ==
    \A s \in Slots :
        (/\ runs[s].kind \in {"opened", "edited"}
         /\ runs[s].pc = "saveIssueRecord")
        => records[runs[s].issue] = NoRecord

\* C8: a run for an analyze or priority command on an open issue without skip
\* label, let in by the rate limiter, has called the Analyzer by the time it
\* ends, whatever marker labels the issue carries.
C8_AnalyzeCommandReruns ==
    \A s \in Slots :
        (/\ runs[s].kind = "comment"
         /\ runs[s].command \in {"analyze", "priority"}
         /\ runs[s].state = "open"
         /\ \A label \in runs[s].labels :
               ToLowerCase(label) \notin {"duplicate", "invalid", "wontfix", "spam"}
         /\ runs[s].pc = "done")
        => Made(s, "ai.analyzeIssue")

\* the calls of the run of slot s that failed
Failed(s) == {Calls(s)[k][1] : k \in {n \in 1..Len(Calls(s)) : ~Calls(s)[n][2]}}

\* C9: a run in which the Analyzer returned a classification, and in which no
\* call failed but the addition of the processing label and, the label being
\* absent for it, its removal, ends with the record stored with status
\* analyzed, the processing label gone, the classification labels on the
\* issue and one analysis comment posted.
C9_AnalysisOutcome ==
    \A s \in Slots :
        (/\ runs[s].pc = "done"
         /\ Succeeded(s, "ai.analyzeIssue")
         /\ Failed(s) \subseteq {"addLabels:processing", "removeLabel:processing"}
         /\ "removeLabel:processing" \in Failed(s) => "addLabels:processing" \in Failed(s))
        => /\ records[runs[s].issue].status = "analyzed"
           /\ "issues-bot:processing" \notin issueLabels[runs[s].issue]
           /\ AnalysisLabels(runs[s].analysis) \subseteq issueLabels[runs[s].issue]
           /\ Cardinality({k \in 1..Len(Calls(s)) :
                              Calls(s)[k] = <<"createComment:analysis", TRUE>>}) = 1

\* the edges of the status graph; the creation of a record is no edge
StatusEdges ==
    { <<"pending", "analyzing">>, <<"analyzing", "analyzed">>,
      <<"analyzed", "auto_fixing">>, <<"auto_fixing", "fixed">>,
      <<"auto_fixing", "manual_required">>, <<"fixed", "closed">> }
    \cup { <<from, "error">> : from \in {"pending", "analyzing", "analyzed", "auto_fixing"} }

\* C10: every change of the status of a stored IssueRecord follows an edge of
\* the status graph.
C10_StatusFollowsGraph ==
    [][\A i \in Issues :
          (records[i] # NoRecord /\ records'[i].status # records[i].status)
          => <<records[i].status, records'[i].status>> \in StatusEdges]_vars

\* the calls whose failure aborts handleIssueOpened and reaches its catch
AbortingCalls == {"ai.analyzeIssue", "db.saveIssueRecord", "db.addIssueLog:analyzed"}

\* how many times the run of slot s made the call op with success
Count(s, op) == Cardinality({k \in 1..Len(Calls(s)) : Calls(s)[k] = <<op, TRUE>>})

\* C11: in a pipeline run whose classification is auto-fixable, with the
\* auto-fix feature enabled, the record has status auto_fixing when the gate
\* is about to be evaluated, and when the run has ended without a failed store
\* call the status is fixed if applyAutoFix succeeded and manual_required if
\* the gate rejected or the applicator failed.
C11_AutoFixStatus ==
    \A s \in Slots :
        (/\ Succeeded(s, "ai.analyzeIssue")
         /\ Succeeded(s, "db.saveIssueRecord")
         /\ runs[s].analysis.autoFixable
         /\ config.autoFixEnabled)
        => /\ runs[s].pc = "isAutoFixSafe"
                => records[runs[s].issue].status = "auto_fixing"
           /\ (runs[s].pc = "done" /\ Succeeded(s, "db.recordAutoFixAttempt"))
                => records[runs[s].issue].status =
                      IF runs[s].success THEN "fixed" ELSE "manual_required"

\* C12: once the run for a pull_request.closed event with merged = true and head
\* branch autofix/issue-N has ended with no call failed, the stored status of
\* issue N is closed, the issue is closed on the hosting platform and one
\* completion comment has been posted.
C12_MergedChangeRequestCloses ==
    \A s \in Slots :
        (/\ runs[s].kind = "pr"
         /\ runs[s].pr.ref = "autofix/issue-"
         /\ runs[s].pr.action = "closed" /\ runs[s].pr.merged
         /\ runs[s].pc = "done"
         /\ Failed(s) = {}
         /\ records[runs[s].issue] # NoRecord)
        => /\ records[runs[s].issue].status = "closed"
           /\ issueState[runs[s].issue] = "closed"
           /\ Count(s, "createComment:completed") = 1

\* C13: once a pipeline run that was aborted by a failed Analyzer call or a
\* failed store write has ended, the record of the issue, if there is one,
\* has status error, and one error comment has been posted.
C13_AbortedRunMarksError ==
    \A s \in Slots :
        (/\ runs[s].pc = "done"
         /\ Failed(s) # {}
         /\ Failed(s) \subseteq AbortingCalls)
        => /\ records[runs[s].issue] # NoRecord => records[runs[s].issue].status = "error"
           /\ Count(s, "createComment:error") = 1

\* C14: when the Analyzer is about to be invoked for an admitted event, the
\* status of the issue is analyzing and, the label call having succeeded, the
\* issue carries issues-bot:processing.
C14_AnalyzingBeforeAnalyzer ==
    \A s \in Slots :
        (runs[s].pc = "analyzeIssue" /\ Succeeded(s, "addLabels:processing"))
        => /\ "issues-bot:processing" \in issueLabels[runs[s].issue]
           /\ records[runs[s].issue].status = "analyzing"

\* C15: the run of an issues.edited or issue_comment.created event that found
\* its rate-limit budget exhausted ends having made one call only, the
\* rate-limited notification comment (issues.opened, whose comment depends on
\* what the limiter rejects with, is left out).
C15_RateLimitedEventNotifies ==
    \A s \in Slots :
        (/\ runs[s].kind \in {"edited", "comment"}
         /\ Calls(s)[1] = <<"rateLimiter.consume", FALSE>>
         /\ runs[s].pc = "done"
         /\ failures = 0)
        => /\ Len(Calls(s)) = 2
           /\ Calls(s)[2] = <<"createComment:rateLimit", TRUE>>

\* C16: an event is dropped by the rate limiter only when its own identity (its
\* repository, and for a comment the comment channel of the repository) has
\* used its whole budget in the current window; no identity is let in more
\* often than its budget.
C16_BudgetsIndependent ==
    /\ (rateEvent.kind # "none" /\ ~rateEvent.accepted)
          => rateEvent.used[rateEvent.repository][ChannelOf(rateEvent.kind)] = RateLimitMax
    /\ \A r \in Repositories : \A c \in Channels : rateEvent.used[r][c] <= RateLimitMax

\* a comment of a repository is let in while the issue budget of the repository
\* and both budgets of the other repository are used up
C16_Witness ==
    /\ rateEvent.kind = "comment"
    /\ rateEvent.repository = "repo"
    /\ rateEvent.accepted
    /\ rateEvent.used["repo"]["issues"] = RateLimitMax
    /\ rateEvent.used["other"]["issues"] = RateLimitMax
    /\ rateEvent.used["other"]["comment"] = RateLimitMax

\* the rows of table issues that hold an identity
RowsOf(id) == {k \in 1..Len(issuesTable) : issuesTable[k].id = id}

InPipeline(s) == runs[s].pc \notin {"idle", "done", "addReanalysisComment", "addRateLimitComment"}

\* C17: two pipeline runs for the same issue never overlap: no two handler
\* invocations are past the admission filter for one issue at the same time,
\* both with a classification returned by the Analyzer.
C17_NoOverlappingRuns ==
    \A s \in Slots : \A t \in Slots \ {s} :
        ~(/\ InPipeline(s) /\ InPipeline(t)
          /\ runs[s].issue = runs[t].issue
          /\ Succeeded(s, "ai.analyzeIssue") /\ Succeeded(t, "ai.analyzeIssue"))

\* applyAutoFix has returned in the run of slot s, the gate having approved
ApplyReturned(s) ==
    /\ runs[s].gate = "pass"
    /\ runs[s].pc \in {"recordAutoFixAttempt", "addIssueLogAutoFix", "done"}

\* the file writes of the run of slot s that succeeded
Applied(s) == Count(s, "repos.createOrUpdateFileContents") + Count(s, "repos.deleteFile")

FileCalls(s) ==
    SelectSeq(Calls(s), LAMBDA c : c[1] \in {"repos.createOrUpdateFileContents",
                                              "repos.getContent", "repos.deleteFile"})

\* the changed set that the file calls fc, from the k-th on, yield for the file
\* edits from the n-th on when every edit is attempted in list order: a
\* failed write leaves its file out; <<"mismatch">> when fc is not that
\* sequence of attempts
RECURSIVE Replay(_, _, _, _, _)
Replay(files, n, fc, k, changed) ==
    IF n > Len(files)
    THEN IF k = Len(fc) + 1 THEN changed ELSE <<"mismatch">>
    ELSE LET file == files[n]
             write == IF file.action = "delete" THEN "repos.deleteFile"
                      ELSE "repos.createOrUpdateFileContents"
         IN IF k > Len(fc) THEN <<"mismatch">>
            ELSE IF file.action = "create"
            THEN IF fc[k][1] # write THEN <<"mismatch">>
                 ELSE Replay(files, n + 1, fc, k + 1,
                             IF fc[k][2] THEN Append(changed, file.path) ELSE changed)
            ELSE IF fc[k][1] # "repos.getContent" THEN <<"mismatch">>
            ELSE IF file.action = "delete" /\ ~fc[k][2]
            THEN Replay(files, n + 1, fc, k + 1, changed)
            ELSE IF k + 1 > Len(fc) \/ fc[k + 1][1] # write THEN <<"mismatch">>
            ELSE Replay(files, n + 1, fc, k + 2,
                        IF fc[k + 1][2] THEN Append(changed, file.path) ELSE changed)

\* C20: when applyAutoFix has returned and the branch step was reached, every
\* file edit was attempted, in list order, whatever failed before it; the
\* changed set holds the files whose write succeeded and no other; and when
\* it is not empty and pulls.create did not fail, applyAutoFix succeeded.
C20_FileFailureRecoverable ==
    \A s \in Slots :
        (ApplyReturned(s) /\ Made(s, "git.createRef"))
        => /\ Replay(runs[s].autoFix.files, 1, FileCalls(s), 1, <<>>) = runs[s].changedFiles
           /\ (runs[s].changedFiles # <<>> /\ "pulls.create" \notin Failed(s))
                 => runs[s].success /\ Succeeded(s, "pulls.create")

\* the write of the first file failed, the second file was still written, the
\* change request was opened and applyAutoFix succeeded
C20_Witness ==
    \E s \in Slots :
        /\ ApplyReturned(s)
        /\ runs[s].success
        /\ Len(runs[s].autoFix.files) = 2
        /\ runs[s].changedFiles = <<runs[s].autoFix.files[2].path>>
        /\ <<"repos.deleteFile", FALSE>> \in {Calls(s)[k] : k \in 1..Len(Calls(s))}
        /\ pullRequests[runs[s].issue] = "open"

\* C21: a run of applyAutoFix works on the branch of its issue; when the branch
\* exists at the branch step, the step leaves the branch and its files as they
\* are and the run goes on with its first file edit instead of ending, and
\* every file the run then writes is committed on top of what the branch held.
C21_ExistingBranchReused ==
    [][\A s \in Slots :
          LET i == runs[s].issue
              files == runs[s].autoFix.files
          IN /\ (/\ runs[s].pc = "createBranch" /\ runs'[s].pc # "createBranch"
                 /\ i \in branches)
                => /\ branches' = branches
                   /\ branchFiles' = branchFiles
                   /\ Len(files) > 0 => runs'[s].pc = FileStep(files[1])
             /\ (/\ runs[s].pc \in {"createFile", "updateFile"}
                 /\ Len(Calls(s)) < Len(runs'[s].calls)
                 /\ runs'[s].calls[Len(runs'[s].calls)][2])
                => /\ i \in branches
                   /\ branchFiles'[i] =
                        WriteFile(branchFiles[i], files[runs[s].fileIndex].path,
                                  WrittenContent(files[runs[s].fileIndex]))]_vars

\* a second applyAutoFix for an issue found the branch of the first, wrote a file
\* on it next to the file the first had created, and succeeded
C21_Witness ==
    \E s \in Slots :
        /\ runs[s].pc = "done"
        /\ runs[s].success
        /\ \E k \in 1..Len(Calls(s)) : Calls(s)[k] = <<"git.createRef", FALSE>>
        /\ runs[s].changedFiles = << <<"src/", "app.ts">> >>
        /\ [path |-> <<"docs/", "new.md">>, content |-> <<"x">>] \in branchFiles[runs[s].issue]
        /\ [path |-> <<"src/", "app.ts">>, content |-> <<"x">>] \in branchFiles[runs[s].issue]

\* C22: when applyFileChange finds that the target of an update edit is not on
\* the branch, its next call is the create of that same edit; and when that
\* create is not failed by the platform, the branch holds the path with the
\* content of the edit and the path is appended to the changed files.
C22_UpdateOfMissingFileCreates ==
    [][\A s \in Slots :
          LET i == runs[s].issue
              n == runs[s].fileIndex
              files == runs[s].autoFix.files
              missing == i \in branches /\ files[n].path \notin PathsOf(branchFiles[i])
          IN /\ (/\ runs[s].pc = "getContentForUpdate" /\ runs'[s].pc # "getContentForUpdate"
                 /\ missing)
                => /\ runs'[s].pc = "createFile"
                   /\ runs'[s].fileIndex = n
                   /\ runs'[s].changedFiles = runs[s].changedFiles
             /\ (/\ runs[s].pc = "createFile" /\ runs'[s] # runs[s]
                 /\ files[n].action = "update"
                 /\ missing
                 /\ failures' = failures)
                => /\ [path |-> files[n].path, content |-> WrittenContent(files[n])]
                         \in branchFiles'[i]
                   /\ runs'[s].changedFiles = Append(runs[s].changedFiles, files[n].path)]_vars

\* an edit set whose second edit updates docs/new.md, a path the branch did not
\* hold: the read failed, the create was made, and the path is a changed file
C22_Witness ==
    \E s \in Slots :
        /\ ApplyReturned(s)
        /\ Len(runs[s].autoFix.files) = 2
        /\ runs[s].autoFix.files[2].action = "update"
        /\ FileCalls(s) = << <<"repos.getContent", TRUE>>, <<"repos.deleteFile", TRUE>>,
                             <<"repos.getContent", FALSE>>,
                             <<"repos.createOrUpdateFileContents", TRUE>> >>
        /\ runs[s].changedFiles = << <<"docs/", "old.md">>, <<"docs/", "new.md">> >>
        /\ [path |-> <<"docs/", "new.md">>, content |-> <<"x">>] \in branchFiles[runs[s].issue]
        /\ failures = 0

\* the hosting-API calls of applyAutoFix outside the file edits
ApplyStepCalls ==
    {"repos.get", "git.createRef", "pulls.create", "addLabels:pr", "createComment:autofix"}

\* C23: when applyAutoFix has returned from a run in which a hosting-API call
\* of one of its steps failed (repos.get, the branch step for a branch that
\* does not exist, pulls.create, the labelling of the change request, the
\* comment on the issue), it reported failure.
C23_ApiErrorFailsApply ==
    \A s \in Slots :
        (/\ ApplyReturned(s)
         /\ \E op \in Failed(s) \cap ApplyStepCalls :
               op = "git.createRef" => runs[s].issue \notin branches)
        => ~runs[s].success

\* parseAnalysisResponse has returned for the completion of the parser harness
Parsed == parseCall.kind = "analysis" /\ parseCall.done

\* C24: for every completion text (no JSON, JSON that is no object, an object
\* missing required fields, a confidence out of range or not a number) the
\* classification parseAnalysisResponse returns has a confidence that is a
\* number between 0 and 1.
C24_ConfidenceInUnitInterval ==
    Parsed => /\ parseCall.result.confidence # NaN
              /\ parseCall.result.confidence \in 0..100

\* the object of a completion has every required field, each within its
\* enumeration
WellFormed(content) ==
    /\ content.shape = "object"
    /\ requiredAnalysisFields \subseteq content.keys
    /\ content.type \in IssueTypes
    /\ content.severity \in IssueSeverities
    /\ content.priority \in IssuePriorities

\* C25: the classification parseAnalysisResponse returns has type, severity and
\* priority inside IssueType, IssueSeverity and IssuePriority, and for a
\* completion whose required fields are missing or hold unknown values it is
\* the fallback (other / medium / medium, confidence 0.3, not auto-fixable).
C25_ClassificationWithinEnumerations ==
    Parsed => /\ parseCall.result.type \in IssueTypes
              /\ parseCall.result.severity \in IssueSeverities
              /\ parseCall.result.priority \in IssuePriorities
              /\ ~WellFormed(parseCall.content) => parseCall.result = FallbackAnalysis

\* the calls that write to the store
StoreWrites ==
    {"db.saveIssueRecord", "db.addIssueLog:analyzed", "db.saveIssueRecord:solution",
     "db.recordAutoFixAttempt", "db.addIssueLog:auto_fix_attempted",
     "db.updateIssueStatus", "db.addIssueLog:autofix_pr"}

\* the completion call of the analysis failed in the run of slot s
AnalyzerFailed(s) == \E k \in 1..Len(Calls(s)) : Calls(s)[k] = <<"ai.analyzeIssue", FALSE>>

\* C26: when the completion call of the analysis fails, the run has written
\* nothing to the store before it, the failing step writes nothing, and all
\* the run does from there is to post the error comment and end: the records
\* and the log are what they were when the run began.
C26_AnalyzerFailureLeavesStore ==
    [][\A s \in Slots :
          LET calls == runs'[s].calls IN
          /\ (/\ runs[s].pc = "analyzeIssue" /\ runs'[s].pc # "analyzeIssue"
              /\ calls[Len(calls)] = <<"ai.analyzeIssue", FALSE>>)
             => /\ runs'[s].pc = "addErrorComment"
                /\ \A k \in 1..Len(calls) : calls[k][1] \notin StoreWrites
                /\ records' = records /\ issueLogs' = issueLogs
          /\ (AnalyzerFailed(s) /\ runs[s].pc # "done" /\ runs'[s] # runs[s])
             => /\ runs[s].pc = "addErrorComment"
                /\ runs'[s].pc = "done"
                /\ calls[Len(calls)][1] = "createComment:error"
                /\ records' = records /\ issueLogs' = issueLogs]_vars

\* a run whose completion call failed has ended: the error comment is posted,
\* the issue has no record and the log has no entry
C26_Witness ==
    \E s \in Slots :
        /\ runs[s].pc = "done"
        /\ Calls(s) = << <<"rateLimiter.consume", TRUE>>, <<"addLabels:processing", TRUE>>,
                         <<"ai.analyzeIssue", FALSE>>, <<"createComment:error", TRUE>> >>
        /\ records[runs[s].issue] = NoRecord
        /\ issueLogs = <<>>

\* the steps of generateSolution
SolutionSteps == {"generateSolution", "solutionGetRecord", "solutionSaveRecord"}

CommentCalls ==
    {"createComment:rateLimit", "createComment:reanalysis", "createComment:analysis",
     "createComment:error", "createComment:autofix", "createComment:solution",
     "createComment:completed"} \cup {"createComment:" \o step : step \in replySteps}

\* the comments the run of slot s posted
CommentsPosted(s) ==
    {k \in 1..Len(Calls(s)) : Calls(s)[k][2] /\ Calls(s)[k][1] \in CommentCalls}

\* C28: the run of a fix command on an issue without stored record, once it
\* has ended with no call failed, has posted exactly one comment, the
\* explanation that no analysis exists, and has made no other call than the
\* rate limiter's and the read of the record.
C28_FixWithoutRecordExplains ==
    \A s \in Slots :
        (/\ runs[s].kind = "comment" /\ runs[s].command = "fix"
         /\ runs[s].pc = "done"
         /\ Failed(s) = {}
         /\ records[runs[s].issue] = NoRecord)
        => /\ Cardinality(CommentsPosted(s)) = 1
           /\ Succeeded(s, "createComment:replyNotFound")
           /\ \A k \in 1..Len(Calls(s)) :
                 Calls(s)[k][1] \in {"rateLimiter.consume", "db.getIssueRecord",
                                     "createComment:replyNotFound"}

\* C29: the run of an issue_comment.created event whose comment was authored
\* by a bot handles no command: whatever the body of the comment holds, the
\* run ends right after the rate limiter, with no analysis, fix, suggestion
\* or reply comment.
C29_BotCommentNotHandled ==
    \A s \in Slots :
        (runs[s].kind = "comment" /\ runs[s].userType = "Bot")
        => /\ runs[s].pc = "done"
           /\ runs[s].command = ""
           /\ Len(Calls(s)) = 1
           /\ Calls(s)[1][1] = "rateLimiter.consume"

\* the error comment of the bot, which quotes the analyze command, came back
\* as an event after a run that had posted it, and was let in by the rate limiter
C29_Witness ==
    \E s \in Slots :
        /\ runs[s].kind = "comment"
        /\ runs[s].userType = "Bot"
        /\ runs[s].body = ErrorCommentBody
        /\ ParseCommand(runs[s].body) = "analyze"
        /\ Calls(s) = << <<"rateLimiter.consume", TRUE>> >>
        /\ failures = 1

\* the store calls attemptAutoFix makes after applyAutoFix returned
AttemptRecords == {"db.recordAutoFixAttempt", "db.addIssueLog:auto_fix_attempted"}

-----------------------------------------------------------------------------
(* C31: failures stay inside the handler *)

\* the positions of a handler that has not returned
Running(s) == runs[s].pc \notin {"idle", "done", "rejected"}

-----------------------------------------------------------------------------
(* C32: the gate is a pure function *)

\* what an evaluation of the gate must leave alone: its arguments, the policy,
\* the hosting platform and the store
GateFrame == <<gateInput, config, hostVars, storeVars>>

-----------------------------------------------------------------------------
(* C33: the auto-fix feature flag *)

\* C33: with the auto-fix feature disabled, no run makes a hosting-API mutation
\* of the Fix Applicator (branch, commit, change request, its label and its
\* comment), whatever the event, and no autofix branch exists.
C33_DisabledFlagNoApplicator ==
    ~config.autoFixEnabled =>
        /\ branches = {}
        /\ \A s \in Slots : \A op \in ApplyMutations : ~Made(s, op)

-----------------------------------------------------------------------------
(* C34: storing a solution next to other writers of the record *)

\* the fields of a record that updateIssueStatus and recordAutoFixAttempt write
WrittenByUpdates(record) ==
    <<record.status, record.autoFixAttempted, record.autoFixSuccessful>>

\* C34: the save of generateSolution keeps the status and the auto-fix flags
\* the record has when the save is made, so what updateIssueStatus or
\* recordAutoFixAttempt wrote since generateSolution read the record stays.
C34_SolutionSaveKeepsUpdates ==
    [][ \A s \in Slots :
          (At(s, "solutionSaveRecord") /\ ~At(s, "solutionSaveRecord")')
          => WrittenByUpdates(records'[runs[s].issue])
               = WrittenByUpdates(records[runs[s].issue]) ]_vars

-----------------------------------------------------------------------------
(* C35: the processing label *)

\* C35: a run that attached issues-bot:processing and has ended, however it
\* ended, leaves the issue without that label.
C35_ProcessingLabelTransient ==
    \A s \in Slots :
        (runs[s].pc = "done" /\ Succeeded(s, "addLabels:processing"))
        => "issues-bot:processing" \notin issueLabels[runs[s].issue]

-----------------------------------------------------------------------------
(* C36: line edits refer to the original file *)

Committed == editCall.pc = "committed"

\* the line numbers of changes are lines of a file of n lines, no two the same
DistinctInRange(changes, n) ==
    /\ \A j \in 1..Len(changes) : changes[j].lineNumber \in 1..n
    /\ \A j, k \in 1..Len(changes) : changes[j].lineNumber = changes[k].lineNumber => j = k

CountType(changes, type) == Cardinality({j \in 1..Len(changes) : changes[j].type = type})

\* each change applied at its line of the original file, from line k on: an
\* added content comes before the line, a removed line is left out, a replaced
\* line gives way to the content
RECURSIVE AtOriginalLines(_, _, _)
AtOriginalLines(original, changes, k) ==
    IF k > Len(original) THEN <<>>
    ELSE LET at == {j \in 1..Len(changes) : changes[j].lineNumber = k}
             change == changes[CHOOSE j \in at : TRUE]
             here == IF at = {} THEN <<original[k]>>
                     ELSE CASE change.type = "add" -> <<change.content, original[k]>>
                            [] change.type = "remove" -> <<>>
                            [] OTHER -> <<change.content>>
         IN here \o AtOriginalLines(original, changes, k + 1)

\* C36: for line edits with pairwise distinct line numbers inside the file, the
\* result of applyFileChanges is the original with each edit applied at its
\* original line, and has as many lines as the original plus the adds minus
\* the removes; adding X at line 10 and removing line 5 of a file of twenty
\* lines gives twenty lines with X right before the original line 10.
C36_EditsReferToOriginalLines ==
    Committed =>
        LET original == editCall.existingFile.content
            changes == editCall.fileChange.changes
            result == editCall.commit.content
        IN /\ (changes # <<>> /\ DistinctInRange(changes, Len(original)))
              => /\ result = AtOriginalLines(original, changes, 1)
                 /\ Len(result) = Len(original) + CountType(changes, "add")
                                    - CountType(changes, "remove")
           /\ (original = TwentyLines /\ changes = AddTenRemoveFive)
              => /\ Len(result) = 20
                 /\ result[9] = <<"X", 0>>
                 /\ result[10] = Line(10)

\* two edits given in ascending line order, an add at the first line and the
\* removal of the last, were applied to a file of three lines
C36_Witness ==
    /\ Committed
    /\ editCall.existingFile.content = <<Line(1), Line(2), Line(3)>>
    /\ editCall.fileChange.changes =
         << [lineNumber |-> 1, type |-> "add", content |-> <<"new", 1>>],
            [lineNumber |-> 3, type |-> "remove", content |-> <<"new", 2>>] >>
    /\ editCall.commit.content = << <<"new", 1>>, Line(1), Line(2) >>

-----------------------------------------------------------------------------
(* C37: what an update commits *)

\* C37: the update of an existing file commits the fetched content transformed
\* by the line edits when the edit has line edits (its full content is then
\* ignored), else its full content, else the empty text; the commit carries
\* the sha of the blob as it was fetched.
C37_UpdateCommitsEditedBlob ==
    Committed =>
        LET fileChange == editCall.fileChange
            fetched == editCall.existingFile
        IN /\ fileChange.changes # <<>>
              => editCall.commit.content = ApplyFileChanges(fetched.content, fileChange.changes)
           /\ (fileChange.changes = <<>> /\ fileChange.hasContent)
              => editCall.commit.content = fileChange.content
           /\ (fileChange.changes = <<>> /\ ~fileChange.hasContent)
              => editCall.commit.content = <<>>
           /\ editCall.commit.sha = fetched.sha
           /\ editCall.commit.accepted => editCall.blob.content = editCall.commit.content

\* an edit with both line edits and a full content was committed from the
\* fetched lines, after someone else had committed to the file
C37_Witness ==
    /\ Committed
    /\ editCall.fileChange.changes # <<>>
    /\ editCall.fileChange.content = FullContent
    /\ editCall.commit.content # FullContent
    /\ editCall.commit.content # editCall.existingFile.content
    /\ editCall.blob.sha # editCall.commit.sha
    /\ ~editCall.commit.accepted

-----------------------------------------------------------------------------
(* C38: change-request events other than the merged close *)

\* the run handles a change-request event that is not the merged close of an
\* autofix branch
OtherChangeRequestEvent(run) ==
    /\ run.kind = "pr"
    /\ ~(run.pr.ref = "autofix/issue-" /\ run.pr.action = "closed" /\ run.pr.merged)

\* C38: the run of a change-request event that is not the merged close of an
\* autofix branch makes at most one call, the addition of its log entry, and
\* leaves the records, the state and the labels of the issues and the branches
\* as they are; for a branch that is no autofix branch it makes no call.
C38_OtherChangeRequestEventsInert ==
    [][ \A s \in Slots :
          /\ OtherChangeRequestEvent(runs'[s])
             => /\ \A k \in 1..Len(runs'[s].calls) :
                      runs'[s].calls[k][1] = "db.addIssueLog:autofix_pr"
                /\ Len(runs'[s].calls) <= 1
                /\ runs'[s].pr.ref # "autofix/issue-"
                   => runs'[s].calls = <<>> /\ runs'[s].pc = "done"
          /\ (OtherChangeRequestEvent(runs[s]) /\ Running(s))
             => /\ UNCHANGED <<records, issueState, issueLabels, branches, branchFiles>>
                /\ issueLogs' \in
                     {issueLogs,
                      Append(issueLogs, <<runs[s].issue, "autofix_pr_" \o runs[s].pr.action>>)}
                /\ runs'[s].pc = "done" ]_vars

\* the change request of an autofix branch was closed without a merge: the run
\* has ended with the log entry written, the record as the attempt left it and
\* the issue open
C38_Witness ==
    \E s \in Slots :
        /\ runs[s].kind = "pr"
        /\ runs[s].pr = [action |-> "closed", merged |-> FALSE, ref |-> "autofix/issue-",
                         issue |-> 1]
        /\ runs[s].pc = "done"
        /\ Calls(s) = << <<"db.addIssueLog:autofix_pr", TRUE>> >>
        /\ issueLogs[Len(issueLogs)] = <<1, "autofix_pr_closed">>
        /\ records[1].status = "analyzed"
        /\ records[1].autoFixSuccessful = "true"
        /\ issueState[1] = "open"

-----------------------------------------------------------------------------
(* C39: which classifications reach the Fix Applicator *)

\* the calls attemptAutoFix makes from the generation of the edit set on
AttemptCalls == {"ai.generateAutoFix", "isAutoFixSafe"} \cup ApplyMutations

\* the classification handed to attemptAutoFix qualifies for a fix
Eligible(analysis) ==
    /\ analysis.autoFixable
    /\ ~(analysis.confidence # NaN /\ analysis.confidence < config.confidenceThreshold)

\* C39: in no run, of an issue event or of a fix command, is an edit set
\* generated or applyAutoFix called for a classification that is not
\* auto-fixable or has a confidence below the threshold; a run holding the
\* fallback classification makes none of these calls.
C39_OnlyEligibleClassificationsFixed ==
    \A s \in Slots :
        /\ (\E op \in AttemptCalls : Made(s, op)) => Eligible(runs[s].analysis)
        /\ runs[s].analysis = FallbackAnalysis => \A op \in AttemptCalls : ~Made(s, op)

\* a fix command on an issue whose stored classification is auto-fixable with
\* confidence 0.5 has ended after reading the record
C39_Witness ==
    \E s \in Slots :
        /\ runs[s].command = "fix"
        /\ runs[s].pc = "done"
        /\ runs[s].analysis.autoFixable
        /\ runs[s].analysis.confidence = 50
        /\ Succeeded(s, "db.getIssueRecord")
        /\ Len(Calls(s)) = 3

-----------------------------------------------------------------------------
(* C40: the auto-fix flags of a record *)

\* C40: whatever the order in which the saves of whole records, the recording
\* of attempts and the status updates of handlers in progress at once reach
\* the store, a record whose autoFixSuccessful is set has autoFixAttempted set.
C40_SuccessfulImpliesAttempted ==
    \A i \in Issues :
        records[i].autoFixSuccessful # "null" => records[i].autoFixAttempted

\* an attempt was recorded by one handler while another saved the record with
\* a solution, and the record carries the result of an attempt
C40_Witness ==
    \E s, t \in Slots :
        /\ s # t
        /\ Succeeded(s, "db.recordAutoFixAttempt")
        /\ Succeeded(t, "db.saveIssueRecord:solution")
        /\ runs[s].issue = runs[t].issue
        /\ records[runs[s].issue].autoFixSuccessful # "null"
        /\ records[runs[s].issue].autoFixAttempted

=============================================================================
